---------------------------- MODULE Spec2Model ----------------------------
(***************************************************************************)
(* Verification model of the MaidSafe private library:                     *)
(*   - the APPENDABLE_BY_ALL chunk-action rules                            *)
(*     (src/maidsafe/private/chunk_actions/appendable_by_all_rules.cc),    *)
(*   - the framed TCP transport and its connections                        *)
(*     (src/maidsafe/private/tcp_transport.cc, tcp_connection.cc),         *)
(*   - the vault manager (src/maidsafe/private/vault_manager.cc).          *)
(*                                                                         *)
(* Byte strings are modelled as tagged records: the tag ("kind") is the    *)
(* protobuf message type the bytes were serialised from, "garbage" for     *)
(* bytes that parse as no message, "empty" for the empty string.           *)
(* ParseProtobuf<T> succeeds exactly on bytes serialised from a T.         *)
(***************************************************************************)
EXTENDS Integers, Sequences, FiniteSets, TLC

(***************************************************************************)
(* Bounds of the model.                                                    *)
(***************************************************************************)
\* longest appendices list the caller commits to the store
MaxAppendices == 1

(***************************************************************************)
(* Chunk type tag and return codes.                                        *)
(***************************************************************************)
\* tag byte of the APPENDABLE_BY_ALL chunk type, compared with the first
\* byte of allow_others_to_append.data
kAppendableByAll == 1

kSuccess == "kSuccess"
kGeneralError == "kGeneralError"
kFailedToFindChunk == "kFailedToFindChunk"
kInvalidPublicKey == "kInvalidPublicKey"
kNotOwner == "kNotOwner"
kKeyNotUnique == "kKeyNotUnique"
kInvalidSignedData == "kInvalidSignedData"
kSignatureVerificationFailure == "kSignatureVerificationFailure"
kParseFailure == "kParseFailure"
kInvalidModify == "kInvalidModify"
kAppendDisallowed == "kAppendDisallowed"

(***************************************************************************)
(* Keys and signatures (asymm:: primitives, used through their interface). *)
(***************************************************************************)
ValidKeys == {"K", "O"}
InvalidKeys == {"X"}
PublicKeys == ValidKeys \cup InvalidKeys

\* asymm::ValidateKey
ValidateKey(public_key) == public_key \in ValidKeys

\* data bytes: a string is the sequence of its bytes
DataValues == {<<>>, <<0>>, <<kAppendableByAll>>}

\* signatures are not unique: two signatures of the same data under the same
\* key may differ (salt) and both verify
Salts == {0, 1}
Sign(key, data, salt) == [signer |-> key, over |-> data, salt |-> salt]
BadSignature == [signer |-> "nobody", over |-> <<>>, salt |-> 0]

\* asymm::CheckSignature(data, signature, public_key) == kSuccess
CheckSignature(data, signature, public_key) ==
  /\ ValidateKey(public_key)
  /\ signature.signer = public_key
  /\ signature.over = data

(***************************************************************************)
(* Protobuf messages and their (de)serialisation.                          *)
(***************************************************************************)
EmptyBytes == [kind |-> "empty"]
Garbage == [kind |-> "garbage"]

SignedData(data, signature) == [data |-> data, signature |-> signature]

\* SignedData::SerializeToString
SerializeSignedData(sd) ==
  [kind |-> "SignedData", data |-> sd.data, signature |-> sd.signature]

\* AppendableByAll::SerializeToString
SerializeAppendableByAll(chunk) ==
  [kind |-> "AppendableByAll",
   identity_key |-> chunk.identity_key,
   allow_others_to_append |-> chunk.allow_others_to_append,
   appendices |-> chunk.appendices]

\* ModifyAppendableByAll::SerializeToString (built by the caller of Modify)
SerializeModifyAppendableByAll(chunk) ==
  [kind |-> "ModifyAppendableByAll",
   allow_others_to_append |-> chunk.allow_others_to_append,
   identity_key |-> chunk.identity_key]

\* ParseProtobuf<T>(bytes, &msg): does it succeed
ParsesAs(bytes, kind) == bytes.kind = kind

\* ParseProtobuf<SignedData>: the message parsed
ParseSignedData(bytes) ==
  [data |-> bytes.data, signature |-> bytes.signature]

\* ParseProtobuf<AppendableByAll>: the message parsed
ParseAppendableByAll(bytes) ==
  [identity_key |-> bytes.identity_key,
   allow_others_to_append |-> bytes.allow_others_to_append,
   appendices |-> bytes.appendices]

\* ParseProtobuf<ModifyAppendableByAll>: the message parsed
ParseModifyAppendableByAll(bytes) ==
  [allow_others_to_append |-> bytes.allow_others_to_append,
   identity_key |-> bytes.identity_key]

\* std::string::c_str()[0]: the first byte, the terminating 0 of an empty string
FirstByte(data) == IF data = <<>> THEN 0 ELSE data[1]

(***************************************************************************)
(* The chunk store interface used by the rules.                            *)
(***************************************************************************)
Names == {"name"}

\* ChunkStore::Get: the stored bytes, empty when the name is absent
StoreGet(st, name) == st[name]

\* ChunkStore::Has
StoreHas(st, name) == st[name] # EmptyBytes

(***************************************************************************)
(* The rules: each Process<kAppendableByAll> function as an operator of    *)
(* its arguments and the chunk store, giving the return code and the bytes *)
(* left in its output parameter.                                           *)
(***************************************************************************)
Result(rc, bytes) == [rc |-> rc, content |-> bytes]

\* OWNER(PK): the key verifies the stored allow_others_to_append
IsOwner(existing_chunk, public_key) ==
  CheckSignature(existing_chunk.allow_others_to_append.data,
                 existing_chunk.allow_others_to_append.signature,
                 public_key)

\* AppendableByAll::clear_appendices
ClearAppendices(chunk) == [chunk EXCEPT !.appendices = <<>>]

\* ---- ProcessGet ----
OwnerView_All(all_existing_content, existing_chunk) == all_existing_content

\* owner: the chunk with its appendices cleared, serialised
OwnerView(all_existing_content, existing_chunk) ==
  SerializeAppendableByAll(ClearAppendices(existing_chunk))

NotOwnerView_All(all_existing_content, existing_chunk) == all_existing_content

\* not owner: only the first value, identity_key, serialised
NotOwnerView(all_existing_content, existing_chunk) ==
  SerializeSignedData(existing_chunk.identity_key)

ProcessGet(name, public_key, st) ==
  LET all_existing_content == StoreGet(st, name)
      existing_chunk == ParseAppendableByAll(all_existing_content)
  IN  IF all_existing_content = EmptyBytes
        THEN Result(kFailedToFindChunk, EmptyBytes)
      ELSE IF ~ParsesAs(all_existing_content, "AppendableByAll")
        THEN Result(kGeneralError, EmptyBytes)
      ELSE IF ~ValidateKey(public_key)
        THEN Result(kInvalidPublicKey, EmptyBytes)
      ELSE IF IsOwner(existing_chunk, public_key)
        THEN Result(kSuccess, OwnerView(all_existing_content, existing_chunk))
      ELSE Result(kNotOwner, NotOwnerView(all_existing_content, existing_chunk))

\* ---- ProcessStore ----
ProcessStore_ParseFirst(name, content, public_key, st) ==
  LET chunk == ParseAppendableByAll(content)
  IN  IF ~ParsesAs(content, "AppendableByAll")
        THEN kInvalidSignedData
      ELSE IF StoreHas(st, name)
        THEN kKeyNotUnique
      ELSE IF ~ValidateKey(public_key)
        THEN kInvalidPublicKey
      ELSE IF ~CheckSignature(chunk.allow_others_to_append.data,
                              chunk.allow_others_to_append.signature,
                              public_key)
        THEN kSignatureVerificationFailure
      ELSE kSuccess

ProcessStore(name, content, public_key, st) ==
  LET chunk == ParseAppendableByAll(content)
  IN  IF StoreHas(st, name)
        THEN kKeyNotUnique
      ELSE IF ~ParsesAs(content, "AppendableByAll")
        THEN kInvalidSignedData
      ELSE IF ~ValidateKey(public_key)
        THEN kInvalidPublicKey
      ELSE IF ~CheckSignature(chunk.allow_others_to_append.data,
                              chunk.allow_others_to_append.signature,
                              public_key)
        THEN kSignatureVerificationFailure
      ELSE kSuccess

\* ---- ProcessDelete ----
CheckOwnershipProof_ParseFailure(ownership_proof, public_key) ==
  LET deletion_token == ParseSignedData(ownership_proof)
  IN  IF ~ParsesAs(ownership_proof, "SignedData")
        THEN kParseFailure
      ELSE IF ~CheckSignature(deletion_token.data, deletion_token.signature,
                              public_key)
        THEN kNotOwner
      ELSE kSuccess

CheckOwnershipProof_ParseOnly(ownership_proof, public_key) ==
  IF ~ParsesAs(ownership_proof, "SignedData") THEN kNotOwner ELSE kSuccess

\* the deletion token: ownership_proof parsed and verified under the key
CheckOwnershipProof(ownership_proof, public_key) ==
  LET deletion_token == ParseSignedData(ownership_proof)
  IN  IF ~ParsesAs(ownership_proof, "SignedData")
        THEN kNotOwner
      ELSE IF ~CheckSignature(deletion_token.data, deletion_token.signature,
                              public_key)
        THEN kNotOwner
      ELSE kSuccess

ProcessDelete_KeyFirst(name, ownership_proof, public_key, st) ==
  LET existing_content == StoreGet(st, name)
      existing_chunk == ParseAppendableByAll(existing_content)
  IN  IF ~ValidateKey(public_key)
        THEN kInvalidPublicKey
      ELSE IF existing_content = EmptyBytes
        THEN kSuccess
      ELSE IF ~ParsesAs(existing_content, "AppendableByAll")
        THEN kGeneralError
      ELSE IF ~IsOwner(existing_chunk, public_key)
        THEN kSignatureVerificationFailure
      ELSE CheckOwnershipProof(ownership_proof, public_key)

ProcessDelete(name, ownership_proof, public_key, st) ==
  LET existing_content == StoreGet(st, name)
      existing_chunk == ParseAppendableByAll(existing_content)
  IN  IF existing_content = EmptyBytes
        THEN kSuccess
      ELSE IF ~ParsesAs(existing_content, "AppendableByAll")
        THEN kGeneralError
      ELSE IF ~ValidateKey(public_key)
        THEN kInvalidPublicKey
      ELSE IF ~IsOwner(existing_chunk, public_key)
        THEN kSignatureVerificationFailure
      ELSE CheckOwnershipProof(ownership_proof, public_key)

\* ---- ProcessModify ----
TooLittleOrTooMuch_OnlyNone(chunk) ==
  chunk.allow_others_to_append.data = <<>> /\ chunk.identity_key.data = <<>>

\* one and only one of identity_key and allow_others_to_append shall be
\* provided: is that violated
TooLittleOrTooMuch(chunk) ==
  LET allow_others_to_append_empty == chunk.allow_others_to_append.data = <<>>
      identity_key_empty == chunk.identity_key.data = <<>>
  IN  \/ allow_others_to_append_empty /\ identity_key_empty
      \/ (~allow_others_to_append_empty) /\ (~identity_key_empty)

RemoveAppendicesOnly_CopyField(existing_chunk, chunk) ==
  SerializeAppendableByAll(
    [ClearAppendices(existing_chunk) EXCEPT
       !.allow_others_to_append =
          IF chunk.allow_others_to_append.data = <<>>
            THEN @ ELSE chunk.allow_others_to_append,
       !.identity_key =
          IF chunk.identity_key.data = <<>> THEN @ ELSE chunk.identity_key])

\* new data equal to the existing data: remove appendices only
RemoveAppendicesOnly(existing_chunk, chunk) ==
  SerializeAppendableByAll(ClearAppendices(existing_chunk))

ReplaceAllowOthersToAppend_Clears(existing_chunk, chunk) ==
  SerializeAppendableByAll(
    [ClearAppendices(existing_chunk) EXCEPT
       !.allow_others_to_append = chunk.allow_others_to_append])

\* replace allow_others_to_append only, leave appendices untouched
ReplaceAllowOthersToAppend(existing_chunk, chunk) ==
  SerializeAppendableByAll(
    [existing_chunk EXCEPT
       !.allow_others_to_append = chunk.allow_others_to_append])

\* replace identity_key only, leave appendices untouched
ReplaceIdentityKey(existing_chunk, chunk) ==
  SerializeAppendableByAll(
    [existing_chunk EXCEPT !.identity_key = chunk.identity_key])

ModifyAsOwner_AnySigner(existing_chunk, chunk, public_key) ==
  IF TooLittleOrTooMuch(chunk)
    THEN Result(kInvalidModify, EmptyBytes)
  ELSE IF chunk.allow_others_to_append.data # <<>>
    THEN IF ~\E k \in ValidKeys :
                CheckSignature(chunk.allow_others_to_append.data,
                               chunk.allow_others_to_append.signature, k)
           THEN Result(kSignatureVerificationFailure, EmptyBytes)
         ELSE IF chunk.allow_others_to_append.data =
                 existing_chunk.allow_others_to_append.data
           THEN Result(kSuccess, RemoveAppendicesOnly(existing_chunk, chunk))
         ELSE Result(kSuccess, ReplaceAllowOthersToAppend(existing_chunk, chunk))
  ELSE IF ~CheckSignature(chunk.identity_key.data,
                          chunk.identity_key.signature,
                          public_key)
         THEN Result(kSignatureVerificationFailure, EmptyBytes)
       ELSE IF chunk.identity_key.data = existing_chunk.identity_key.data
         THEN Result(kSuccess, RemoveAppendicesOnly(existing_chunk, chunk))
       ELSE Result(kSuccess, ReplaceIdentityKey(existing_chunk, chunk))

\* the owner branch of ProcessModify, once content has parsed
ModifyAsOwner(existing_chunk, chunk, public_key) ==
  IF TooLittleOrTooMuch(chunk)
    THEN Result(kInvalidModify, EmptyBytes)
  ELSE IF chunk.allow_others_to_append.data # <<>>
    THEN IF ~CheckSignature(chunk.allow_others_to_append.data,
                            chunk.allow_others_to_append.signature,
                            public_key)
           THEN Result(kSignatureVerificationFailure, EmptyBytes)
         ELSE IF chunk.allow_others_to_append.data =
                 existing_chunk.allow_others_to_append.data
           THEN Result(kSuccess, RemoveAppendicesOnly(existing_chunk, chunk))
         ELSE Result(kSuccess, ReplaceAllowOthersToAppend(existing_chunk, chunk))
  ELSE IF ~CheckSignature(chunk.identity_key.data,
                          chunk.identity_key.signature,
                          public_key)
         THEN Result(kSignatureVerificationFailure, EmptyBytes)
       ELSE IF chunk.identity_key.data = existing_chunk.identity_key.data
         THEN Result(kSuccess, RemoveAppendicesOnly(existing_chunk, chunk))
       ELSE Result(kSuccess, ReplaceIdentityKey(existing_chunk, chunk))

AddAppendix_First(existing_chunk, appendix) ==
  SerializeAppendableByAll(
    [existing_chunk EXCEPT !.appendices = <<appendix>> \o @])

\* add_appendices()->CopyFrom(appendix)
AddAppendix(existing_chunk, appendix) ==
  SerializeAppendableByAll(
    [existing_chunk EXCEPT !.appendices = Append(@, appendix)])

ModifyAsOther_ParseFirst(existing_chunk, content, public_key) ==
  LET appendability == FirstByte(existing_chunk.allow_others_to_append.data)
      appendix == ParseSignedData(content)
  IN  IF ~ParsesAs(content, "SignedData")
        THEN Result(kInvalidSignedData, EmptyBytes)
      ELSE IF ~CheckSignature(appendix.data, appendix.signature, public_key)
        THEN Result(kSignatureVerificationFailure, EmptyBytes)
      ELSE IF appendability = kAppendableByAll
        THEN Result(kSuccess, AddAppendix(existing_chunk, appendix))
      ELSE Result(kAppendDisallowed, EmptyBytes)

\* the non-owner branch of ProcessModify
ModifyAsOther(existing_chunk, content, public_key) ==
  LET appendability == FirstByte(existing_chunk.allow_others_to_append.data)
      appendix == ParseSignedData(content)
  IN  IF appendability = kAppendableByAll
        THEN IF ~ParsesAs(content, "SignedData")
               THEN Result(kInvalidSignedData, EmptyBytes)
             ELSE IF ~CheckSignature(appendix.data, appendix.signature,
                                     public_key)
               THEN Result(kSignatureVerificationFailure, EmptyBytes)
             ELSE Result(kSuccess, AddAppendix(existing_chunk, appendix))
      ELSE Result(kAppendDisallowed, EmptyBytes)

ProcessModify(name, content, public_key, st) ==
  LET existing_content == StoreGet(st, name)
      existing_chunk == ParseAppendableByAll(existing_content)
      is_owner == IsOwner(existing_chunk, public_key)
  IN  IF existing_content = EmptyBytes
        THEN Result(kFailedToFindChunk, EmptyBytes)
      ELSE IF ~ParsesAs(existing_content, "AppendableByAll")
        THEN Result(kGeneralError, EmptyBytes)
      ELSE IF ~ValidateKey(public_key)
        THEN Result(kInvalidPublicKey, EmptyBytes)
      ELSE IF is_owner
        THEN IF ~ParsesAs(content, "ModifyAppendableByAll")
               THEN Result(kParseFailure, EmptyBytes)
             ELSE ModifyAsOwner(existing_chunk,
                                ParseModifyAppendableByAll(content), public_key)
      ELSE ModifyAsOther(existing_chunk, content, public_key)

\* ---- ProcessHas ----
ProcessHas(name, st) ==
  IF ~StoreHas(st, name) THEN kFailedToFindChunk ELSE kSuccess

\* ---- IsValidChunk, GetVersion ----
\* IsValidChunk<kAppendableByAll>: the store gives content for the name
IsValidChunk(name, st) == StoreGet(st, name) # EmptyBytes

\* GetTigerHash(name, chunk_store): the hash of the bytes stored
TigerHash(bytes) == [kind |-> "TigerHash", of |-> bytes]

\* GetVersion<kAppendableByAll>
GetVersion(name, st) == TigerHash(StoreGet(st, name))

(***************************************************************************)
(* The Vault Manager: vault_manager.cc.  vm holds the members of the       *)
(* VaultManager, the config file on disk, the table of the process         *)
(* manager, the position of each worker thread of asio_service_ inside     *)
(* HandleReceivedMessage, and what the last handler to return was given    *)
(* and passed to transport_->Send.  A byte string is kept, as above, as    *)
(* the record it serialises.                                               *)
(***************************************************************************)
\* ---- bounds of the vault manager ----
MaxThreads == 2     \* worker threads that run handlers at the same time
MaxMessages == 2    \* control messages received
MaxChecks == 3      \* runs of CheckForUpdates that reach the download
MaxRestarts == 1    \* times the Vault Manager is destroyed and started again
MaxPending == 3     \* control messages received by the 3 worker threads

\* VaultManager::kMinUpdateInterval, kMaxUpdateInterval, and the interval
\* of the constructor, in seconds
kMinUpdateInterval == 300
kMaxUpdateInterval == 604800
kInitialUpdateInterval == 86400

\* std::chrono::seconds(3) of HandleStartVaultRequest's wait_for
kVaultWait == 3

\* ProcessManager::kInvalidIndex
kInvalidIndex == 0
\* detail::kMinPort() and detail::kMaxPort(): a range of three ports
kMinPort == 5483
kMaxPort == 5485

\* asymm::Keys, default-constructed
DefaultKeys == [identity |-> "", public_key |-> "X"]

\* the asymm::Keys of the identity k
KeysOf(k) == [identity |-> k, public_key |-> k]

\* asymm::SerialiseKeys: whether it succeeds, and the bytes it leaves
SerialiseKeys(keys) ==
  IF keys = DefaultKeys
    THEN [ok |-> FALSE, bytes |-> EmptyBytes]
  ELSE [ok |-> TRUE,
        bytes |-> [kind |-> "Keys", identity |-> keys.identity,
                   public_key |-> keys.public_key]]

\* asymm::ParseKeys: the keys it leaves (its result is not tested)
ParseKeys(bytes) ==
  IF ParsesAs(bytes, "Keys")
    THEN [identity |-> bytes.identity, public_key |-> bytes.public_key]
  ELSE DefaultKeys

\* asymm::Validate(data, signature, public_key)
AsymmValidate(data, signature, public_key) ==
  CheckSignature(data, signature, public_key)

\* VaultManager::VaultInfo::VaultInfo
VaultInfo ==
  [process_index |-> kInvalidIndex, account_name |-> "", keys |-> DefaultKeys,
   requested_to_run |-> FALSE, vault_requested |-> FALSE]

\* VaultManager::VaultInfo::ToProtobuf
ToProtobuf(vault_info) ==
  [account_name |-> vault_info.account_name,
   keys |-> SerialiseKeys(vault_info.keys).bytes,
   requested_to_run |-> vault_info.requested_to_run]

\* VaultManager::VaultInfo::FromProtobuf
FromProtobuf(pb_vault_info) ==
  [VaultInfo EXCEPT !.account_name = pb_vault_info.account_name,
                    !.keys = ParseKeys(pb_vault_info.keys),
                    !.requested_to_run = pb_vault_info.requested_to_run]

\* protobuf::VaultManagerConfig::SerializeAsString
SerializeConfig(update_interval, vault_infos) ==
  [kind |-> "VaultManagerConfig", update_interval |-> update_interval,
   vault_info |-> [i \in 1..Len(vault_infos) |-> ToProtobuf(vault_infos[i])]]

\* a worker thread outside HandleReceivedMessage.  Inside
\* HandleStartVaultRequest it holds the process index of its vault_info,
\* the place of the vault_info in vault_infos_ once it is pushed, the time
\* it has waited, and whether its wait on cond_var has been notified.
\* todo holds the locks, unlocks and calls it has yet to run where the
\* mutexes are followed, and held the mutexes it owns, in the order in
\* which it locked them
Idle ==
  [pc |-> "idle", request |-> EmptyBytes, vault |-> 0, elapsed |-> 0,
   process_index |-> 0, notified |-> FALSE, todo |-> <<>>, held |-> <<>>]

\* update_timer_: the duration given to expires_from_now, the async_waits
\* pending, and the completed waits whose CheckForUpdates has not run, by
\* error code
NoTimer ==
  [expires_from_now |-> 0, waits |-> 0,
   queue |-> [ec \in {"none", "aborted", "error"} |-> 0]]

\* update_timer_.expires_from_now(d); update_timer_.async_wait(...): the
\* pending waits complete with operation_aborted and one wait is pending
ArmTimer(timer, d) ==
  [timer EXCEPT !.expires_from_now = d,
                !.waits = 1,
                !.queue["aborted"] = @ + timer.waits]

\* ---- the process manager (ProcessManager of process_manager.h) ----
\* VaultManager::AddVaultToProcesses: the index of the new process
AddVaultToProcesses(v, executable_ok) ==
  IF executable_ok THEN Len(v.processes) + 1 ELSE kInvalidIndex

\* ProcessManager::AddProcess(process, local_port_), StartProcess and
\* StopProcess
AddProcess(v) ==
  [v EXCEPT !.processes = Append(@, "added"),
            !.process_ports = Append(@, v.local_port)]
StartProcess(v, index) == [v EXCEPT !.processes[index] = "started"]
StopProcess(v, index) == [v EXCEPT !.processes[index] = "stopped"]

\* ---- the config file ----
\* VaultManager::WriteConfigFile; write_ok is the result of WriteFile
WriteConfigFile(v, write_ok) ==
  IF write_ok
    THEN [v EXCEPT !.config_file =
                      SerializeConfig(v.update_interval, v.vault_infos)]
  ELSE v

\* the loop of ReadConfigFile, from entry i on
RECURSIVE ReadVaultInfos(_, _, _, _)
ReadVaultInfos(v, config, i, executable_ok) ==
  IF i > Len(config.vault_info) THEN v
  ELSE LET vault_info ==
             [FromProtobuf(config.vault_info[i])
                EXCEPT !.process_index = AddVaultToProcesses(v, executable_ok)]
           added == AddProcess(v)
           started == IF vault_info.requested_to_run
                        THEN StartProcess(added, vault_info.process_index)
                      ELSE added
       IN  IF vault_info.process_index = kInvalidIndex
             THEN ReadVaultInfos(v, config, i + 1, executable_ok)
           ELSE ReadVaultInfos(
                  [started EXCEPT !.vault_infos = Append(@, vault_info)],
                  config, i + 1, executable_ok)

\* VaultManager::ReadConfigFile, of a file that is read and parses
ReadConfigFile(v, executable_ok) ==
  ReadVaultInfos([v EXCEPT !.update_interval = v.config_file.update_interval],
                 v.config_file, 1, executable_ok)

\* VaultManager::CheckForUpdates; what UpdateAndVerify returns changes
\* files of the applications only
CheckForUpdates(v, ec) ==
  IF ec # "none" THEN v
  ELSE [v EXCEPT !.checks = @ + 1,
                 !.update_timer = ArmTimer(@, v.update_interval)]

\* VaultManager::ListenForMessages; taken holds the ports on which
\* transport_->StartListening does not return kSuccess
RECURSIVE ListenForMessages(_, _)
ListenForMessages(v, taken) ==
  IF v.local_port \notin taken
    THEN [v EXCEPT !.listening_port = v.local_port]
  ELSE IF v.local_port + 1 > kMaxPort
    THEN [v EXCEPT !.local_port = @ + 1]
  ELSE ListenForMessages([v EXCEPT !.local_port = @ + 1], taken)

\* VaultManager::VaultManager, with the config file it finds (or has
\* written, when it found none)
VaultManager(config_file, executable_ok, taken) ==
 ListenForMessages(
  CheckForUpdates(
    ReadConfigFile(
      [update_interval |-> kInitialUpdateInterval,
       local_port |-> kMinPort,
       listening_port |-> 0,
       process_ports |-> <<>>,
       update_timer |-> NoTimer,
       vault_infos |-> <<>>,
       vault_infos_mutex |-> 0,
       config_file |-> config_file,
       processes |-> <<>>,
       threads |-> [th \in 1..MaxThreads |-> Idle],
       received |-> 0,
       completed |-> 0,
       last |-> [request |-> EmptyBytes, sent |-> FALSE,
                 response |-> EmptyBytes],
       checks |-> 0,
       restarts |-> 0],
      executable_ok),
    "none"),
  taken)

\* ---- control messages ----
\* detail::WrapMessage
WrapMessage(type, payload) ==
  [kind |-> "WrapperMessage", type |-> type, payload |-> payload]

\* set_response of HandleStartVaultRequest
StartVaultResponse(result) ==
  WrapMessage("kStartVaultResponse",
              [kind |-> "StartVaultResponse", result |-> result])

VaultIdentityResponse(account_name, keys) ==
  WrapMessage("kVaultIdentityResponse",
              [kind |-> "VaultIdentityResponse",
               account_name |-> account_name, keys |-> keys])

StopVaultResponse(result) ==
  WrapMessage("kVaultShutdownResponse",
              [kind |-> "StopVaultResponse", result |-> result])

UpdateIntervalResponse(update_interval) ==
  WrapMessage("kUpdateIntervalResponse",
              [kind |-> "UpdateIntervalResponse",
               update_interval |-> update_interval])

\* std::find_if over vault_infos_: the position of the first record with
\* the process index, 0 for end()
FindFromProcessIndex(vault_infos, process_index) ==
  LET found == {i \in 1..Len(vault_infos) :
                  vault_infos[i].process_index = process_index}
  IN  IF found = {} THEN 0
      ELSE CHOOSE i \in found : \A j \in found : i <= j

\* VaultManager::FindFromIdentity, and the find_if of
\* HandleStopVaultRequest: the position of the first record with the
\* identity, 0 for end()
FindFromIdentity(vault_infos, identity) ==
  LET found == {i \in 1..Len(vault_infos) :
                  vault_infos[i].keys.identity = identity}
  IN  IF found = {} THEN 0
      ELSE CHOOSE i \in found : \A j \in found : i <= j

\* HandleReceivedMessage returns on thread th; sent says whether it has
\* reached transport_->Send(response, peer_port)
Returns(v, th, request, sent, response) ==
  [v EXCEPT !.threads[th] = Idle,
            !.completed = @ + 1,
            !.last = [request |-> request, sent |-> sent,
                      response |-> response]]

\* thread th stays inside the handler of request, at pc
Stays(v, th, request, pc) ==
  [v EXCEPT !.threads[th] = [Idle EXCEPT !.pc = pc, !.request = request]]

\* thread th locks vault_infos_mutex_ while another thread owns it for ever
Blocks(v, th) == Stays(v, th, EmptyBytes, "blocked")

\* VaultManager::HandlePing
HandlePing(v, th, message) ==
  IF ~ParsesAs(message.payload, "Ping")
    THEN Returns(v, th, message, TRUE, EmptyBytes)
  ELSE Returns(v, th, message, TRUE, WrapMessage("kPing", message.payload))

\* VaultManager::HandleStartVaultRequest, up to the return of
\* process_manager_.StartProcess; env holds the results of
\* HandleBootstrapFile and SetExecutablePath
HandleStartVaultRequest(v, th, message, env) ==
  LET request == message.payload
      process_index == AddVaultToProcesses(v, env.executable_ok)
      started == StartProcess(AddProcess(v), process_index)
  IN  IF ~ParsesAs(request, "StartVaultRequest")
        THEN Returns(v, th, message, TRUE, EmptyBytes)
      ELSE IF ~env.bootstrap_ok
        THEN Returns(v, th, message, TRUE, StartVaultResponse(FALSE))
      ELSE IF process_index = kInvalidIndex
        THEN Returns(v, th, message, TRUE, StartVaultResponse(FALSE))
      ELSE [started EXCEPT
              !.threads[th] = [Idle EXCEPT !.pc = "started",
                                           !.request = message,
                                           !.process_index = process_index]]

\* HandleStartVaultRequest from the lock of vault_infos_mutex_ to the
\* return of WriteConfigFile: vault_infos_.push_back(vault_info) and the
\* config file; write_ok is the result of WriteFile
StartVaultPushBack(v, th, write_ok) ==
  LET request == v.threads[th].request.payload
      vault_info == [VaultInfo EXCEPT
                       !.account_name = request.account_name,
                       !.keys = ParseKeys(request.keys),
                       !.process_index = v.threads[th].process_index]
      pushed == [v EXCEPT !.vault_infos = Append(@, vault_info)]
  IN  IF v.vault_infos_mutex # 0 THEN Blocks(v, th)
      ELSE [WriteConfigFile(pushed, write_ok) EXCEPT
              !.threads[th].pc = "pushed",
              !.threads[th].vault = Len(pushed.vault_infos)]

\* HandleStartVaultRequest locks vault_info->mutex and calls
\* cond_var.wait_for with the predicate vault_info->vault_requested
StartVaultWaitBegins(v, th) ==
  [v EXCEPT !.threads[th].pc = "wait",
            !.threads[th].elapsed = 0,
            !.threads[th].notified = FALSE]

\* wait_for answers by the status of the wait instead of the predicate
StartVaultWaitReturns_ByStatus(v, th) ==
  Returns(v, th, v.threads[th].request, TRUE,
          StartVaultResponse(v.threads[th].notified))

\* the end of HandleStartVaultRequest: wait_for has returned
\* vault_info->vault_requested
StartVaultWaitReturns(v, th) ==
  Returns(v, th, v.threads[th].request, TRUE,
          StartVaultResponse(
            v.vault_infos[v.threads[th].vault].vault_requested))

\* vault_infos_[itr]->cond_var.notify_one(): the thread that waits on it,
\* if there is one, is notified
NotifyOne(v, itr) ==
  [v EXCEPT !.threads =
     [th \in DOMAIN @ |->
        IF @[th].pc = "wait" /\ @[th].vault = itr
          THEN [@[th] EXCEPT !.notified = TRUE]
        ELSE @[th]]]

HandleVaultIdentityRequest_NoNotify(v, th, message) ==
  LET request == message.payload
      itr == FindFromProcessIndex(v.vault_infos, request.process_index)
      serialised == SerialiseKeys(v.vault_infos[itr].keys)
  IN  IF ~ParsesAs(request, "VaultIdentityRequest")
        THEN Returns(v, th, message, TRUE, EmptyBytes)
      ELSE IF v.vault_infos_mutex # 0 THEN Blocks(v, th)
      ELSE IF itr = 0
        THEN Returns(v, th, message, TRUE,
                     VaultIdentityResponse("", EmptyBytes))
      ELSE IF ~serialised.ok
        THEN Returns(v, th, message, TRUE,
                     VaultIdentityResponse("", EmptyBytes))
      ELSE Returns(v, th, message, TRUE,
                   VaultIdentityResponse(v.vault_infos[itr].account_name,
                                         serialised.bytes))

\* VaultManager::HandleVaultIdentityRequest
HandleVaultIdentityRequest(v, th, message) ==
  LET request == message.payload
      itr == FindFromProcessIndex(v.vault_infos, request.process_index)
      serialised == SerialiseKeys(v.vault_infos[itr].keys)
  IN  IF ~ParsesAs(request, "VaultIdentityRequest")
        THEN Returns(v, th, message, TRUE, EmptyBytes)
      ELSE IF v.vault_infos_mutex # 0 THEN Blocks(v, th)
      ELSE IF itr = 0
        THEN Returns(v, th, message, TRUE,
                     VaultIdentityResponse("", EmptyBytes))
      ELSE IF ~serialised.ok
        THEN Returns(v, th, message, TRUE,
                     VaultIdentityResponse("", EmptyBytes))
      ELSE Returns(NotifyOne([v EXCEPT
                                !.vault_infos[itr].vault_requested = TRUE],
                             itr),
                   th, message, TRUE,
                   VaultIdentityResponse(v.vault_infos[itr].account_name,
                                         serialised.bytes))

StopVault_KeepsRequested(v, identity, write_ok) ==
  LET itr == FindFromIdentity(v.vault_infos, identity)
  IN  IF itr = 0 THEN v
      ELSE WriteConfigFile(StopProcess(v, v.vault_infos[itr].process_index),
                           write_ok)

\* VaultManager::StopVault, when its locks of vault_infos_mutex_ return
StopVault(v, identity, write_ok) ==
  LET itr == FindFromIdentity(v.vault_infos, identity)
  IN  IF itr = 0 THEN v
      ELSE WriteConfigFile(
             [StopProcess(v, v.vault_infos[itr].process_index)
                EXCEPT !.vault_infos[itr].requested_to_run = FALSE],
             write_ok)

\* VaultManager::HandleStopVaultRequest.  It calls StopVault while it owns
\* vault_infos_mutex_, and StopVault locks vault_infos_mutex_: the
\* behaviour of std::mutex::lock on a mutex the thread owns is undefined.
\* env.relock is what the lock does: it never returns, it throws
\* std::system_error, or it returns.
HandleStopVaultRequest(v, th, message, env) ==
  LET request == message.payload
      itr == FindFromIdentity(v.vault_infos, request.identity)
      result == IF itr = 0 THEN FALSE
                ELSE AsymmValidate(request.data, request.signature,
                                   v.vault_infos[itr].keys.public_key)
  IN  IF ~ParsesAs(request, "StopVaultRequest")
        THEN Returns(v, th, message, TRUE, EmptyBytes)
      ELSE IF v.vault_infos_mutex # 0 THEN Blocks(v, th)
      ELSE IF env.relock = "deadlock"
        THEN Stays([v EXCEPT !.vault_infos_mutex = th], th, EmptyBytes,
                   "deadlock")
      ELSE IF env.relock = "throws"
        THEN Stays(v, th, EmptyBytes, "thrown")
      ELSE Returns(StopVault(v, request.identity, env.write_ok),
                   th, message, TRUE, StopVaultResponse(result))

\* VaultManager::SetUpdateInterval: its result and the state it leaves
SetUpdateInterval(v, update_interval) ==
  IF update_interval < kMinUpdateInterval
       \/ update_interval > kMaxUpdateInterval
    THEN [ok |-> FALSE, v |-> v]
  ELSE [ok |-> TRUE,
        v |-> [v EXCEPT !.update_interval = update_interval,
                        !.update_timer = ArmTimer(@, update_interval)]]

\* VaultManager::GetUpdateInterval
GetUpdateInterval(v) == v.update_interval

HandleUpdateIntervalRequest_NoRange(v, th, message) ==
  LET request == message.payload
  IN  IF ~ParsesAs(request, "UpdateIntervalRequest")
        THEN Returns(v, th, message, TRUE, EmptyBytes)
      ELSE IF request.has_new_update_interval
        THEN Stays([v EXCEPT
                      !.update_interval = request.new_update_interval,
                      !.update_timer =
                         ArmTimer(@, request.new_update_interval)],
                   th, message, "get")
      ELSE Returns(v, th, message, TRUE,
                   UpdateIntervalResponse(GetUpdateInterval(v)))

\* VaultManager::HandleUpdateIntervalRequest, up to the return of
\* SetUpdateInterval, which unlocks update_mutex_
HandleUpdateIntervalRequest(v, th, message) ==
  LET request == message.payload
      set == SetUpdateInterval(v, request.new_update_interval)
  IN  IF ~ParsesAs(request, "UpdateIntervalRequest")
        THEN Returns(v, th, message, TRUE, EmptyBytes)
      ELSE IF request.has_new_update_interval
        THEN IF set.ok THEN Stays(set.v, th, message, "get")
             ELSE Returns(v, th, message, TRUE, UpdateIntervalResponse(0))
      ELSE Returns(v, th, message, TRUE,
                   UpdateIntervalResponse(GetUpdateInterval(v)))

\* the end of HandleUpdateIntervalRequest after SetUpdateInterval has
\* returned true: GetUpdateInterval locks update_mutex_ again
UpdateIntervalSet(v, th) ==
  Returns(v, th, v.threads[th].request, TRUE,
          UpdateIntervalResponse(GetUpdateInterval(v)))

\* VaultManager::HandleReceivedMessage on thread th
HandleReceivedMessage(v, th, message, env) ==
  IF ~ParsesAs(message, "WrapperMessage")
    THEN Returns(v, th, message, FALSE, EmptyBytes)
  ELSE IF message.type = "kPing" THEN HandlePing(v, th, message)
  ELSE IF message.type = "kStartVaultRequest"
    THEN HandleStartVaultRequest(v, th, message, env)
  ELSE IF message.type = "kVaultIdentityRequest"
    THEN HandleVaultIdentityRequest(v, th, message)
  ELSE IF message.type = "kStopVaultRequest"
    THEN HandleStopVaultRequest(v, th, message, env)
  ELSE IF message.type = "kUpdateIntervalRequest"
    THEN HandleUpdateIntervalRequest(v, th, message)
  ELSE Returns(v, th, message, FALSE, EmptyBytes)

\* ---- the mutexes ----
\* std::lock_guard<std::mutex> lock(m), its destructor, and a call
Lock(m) == [op |-> "lock", arg |-> m, found |-> FALSE]
Unlock(m) == [op |-> "unlock", arg |-> m, found |-> FALSE]
Call(f, found) == [op |-> "call", arg |-> f, found |-> found]

\* WriteConfigFile with the lock of update_mutex_ in the scope of the
\* function
WriteConfigFileLocks_Unscoped ==
  <<Lock("update_mutex_"), Lock("vault_infos_mutex_"),
    Unlock("vault_infos_mutex_"), Unlock("update_mutex_")>>

\* VaultManager::WriteConfigFile: update_mutex_ in a scope of its own,
\* then vault_infos_mutex_ to the end
WriteConfigFileLocks ==
  <<Lock("update_mutex_"), Unlock("update_mutex_"),
    Lock("vault_infos_mutex_"), Unlock("vault_infos_mutex_")>>

\* the locks, unlocks and calls of function f, in the order in which it
\* runs them; found says whether the function finds the VaultInfo it looks
\* for (for HandleUpdateIntervalRequest, whether SetUpdateInterval
\* returns true; for CheckForUpdates, whether ec is no error)
LocksOf(f, found) ==
  CASE f = "WriteConfigFile" -> WriteConfigFileLocks
    [] f = "HandleStartVaultRequest" ->
         <<Lock("vault_infos_mutex_"), Unlock("vault_infos_mutex_"),
           Call("WriteConfigFile", FALSE),
           Lock("mutex"), Unlock("mutex")>>
    [] f = "HandleVaultIdentityRequest" ->
         IF found
           THEN <<Lock("vault_infos_mutex_"), Lock("mutex"), Unlock("mutex"),
                  Unlock("vault_infos_mutex_")>>
         ELSE <<Lock("vault_infos_mutex_"), Unlock("vault_infos_mutex_")>>
    [] f = "HandleStopVaultRequest" ->
         <<Lock("vault_infos_mutex_"), Call("StopVault", found),
           Unlock("vault_infos_mutex_")>>
    [] f = "StopVault" ->
         IF found
           THEN <<Lock("vault_infos_mutex_"), Call("WriteConfigFile", FALSE),
                  Unlock("vault_infos_mutex_")>>
         ELSE <<Lock("vault_infos_mutex_"), Unlock("vault_infos_mutex_")>>
    [] f = "RestartVault" ->
         <<Lock("vault_infos_mutex_"), Unlock("vault_infos_mutex_")>>
    [] f = "HandleUpdateIntervalRequest" ->
         IF found
           THEN <<Call("SetUpdateInterval", TRUE),
                  Call("GetUpdateInterval", FALSE)>>
         ELSE <<Call("SetUpdateInterval", FALSE)>>
    [] f = "SetUpdateInterval" ->
         IF found THEN <<Lock("update_mutex_"), Unlock("update_mutex_")>>
         ELSE <<>>
    [] f = "GetUpdateInterval" ->
         <<Lock("update_mutex_"), Unlock("update_mutex_")>>
    [] f = "CheckForUpdates" ->
         IF found THEN <<Lock("update_mutex_"), Unlock("update_mutex_")>>
         ELSE <<>>
    [] f = "~VaultManager" ->
         <<Lock("vault_infos_mutex_"), Unlock("vault_infos_mutex_"),
           Lock("update_mutex_"), Unlock("update_mutex_")>>

\* the mutexes thread th owns
Held(v, th) == {v.threads[th].held[i] : i \in DOMAIN v.threads[th].held}

\* the next thing thread th runs is the lock of m
AtLock(v, th, m) ==
  /\ v.threads[th].todo # <<>>
  /\ Head(v.threads[th].todo) = Lock(m)

\* thread th has run the head of todo: when nothing is left the function
\* it was called with has returned
Ran(v, th, held) ==
  IF Tail(v.threads[th].todo) = <<>> THEN [v EXCEPT !.threads[th] = Idle]
  ELSE [v EXCEPT !.threads[th].todo = Tail(@), !.threads[th].held = held]

\* thread th runs the head of todo, which is no lock of a mutex it owns:
\* a call is replaced by what the function runs, an unlock releases the
\* mutex locked last, a lock takes the mutex
RunHead(v, th) ==
  LET t == v.threads[th]
      head == Head(t.todo)
      last == CHOOSE i \in DOMAIN t.held :
                /\ t.held[i] = head.arg
                /\ \A j \in DOMAIN t.held : j > i => t.held[j] # head.arg
  IN  IF head.op = "call"
        THEN IF LocksOf(head.arg, head.found) \o Tail(t.todo) = <<>>
               THEN [v EXCEPT !.threads[th] = Idle]
             ELSE [v EXCEPT !.threads[th].todo =
                               LocksOf(head.arg, head.found) \o Tail(@)]
      ELSE IF head.op = "unlock"
        THEN Ran(v, th, [i \in 1..(Len(t.held) - 1) |->
                           IF i < last THEN t.held[i] ELSE t.held[i + 1]])
      ELSE Ran(v, th, Append(t.held, head.arg))

\* thread th locks a std::mutex it owns, which is undefined: the lock
\* never returns, throws std::system_error, which unwinds the lock_guards
\* of the thread, or returns
RelockHead(v, th, relock) ==
  IF relock = "deadlock" THEN [v EXCEPT !.threads[th].pc = "deadlock"]
  ELSE IF relock = "throws"
    THEN [v EXCEPT !.threads[th] = [Idle EXCEPT !.pc = "thrown"]]
  ELSE Ran(v, th, Append(v.threads[th].held, Head(v.threads[th].todo).arg))

(***************************************************************************)
(* State: the chunk store, and the last chunk-action call with its         *)
(* arguments and results.                                                  *)
(***************************************************************************)
VARIABLES
  store,           \* chunk_store: name -> stored bytes (EmptyBytes = absent)
  op,              \* the last operation run
  name,            \* its name argument
  public_key,      \* its public_key argument
  content,         \* its content (Store, Modify) or ownership_proof (Delete)
  rc,              \* its return code
  result_content   \* the bytes left in *existing_content / *new_content

caaVars == <<store, op, name, public_key, content, rc, result_content>>

(***************************************************************************)
(* State of the framed TCP transport: one TcpTransport and one             *)
(* TcpConnection of it, and the clock the deadline timer reads.            *)
(***************************************************************************)
VARIABLES
  now,             \* asio::deadline_timer::traits_type::now(), in ticks
  conn,            \* the TcpConnection's members and its pending handlers
  transport        \* the TcpTransport's members, its strand and its sinks

tcpVars == <<now, conn, transport>>

(***************************************************************************)
(* State of the Vault Manager.                                             *)
(***************************************************************************)
VARIABLES
  vm               \* the VaultManager, its config file and its threads

vmVars == <<vm>>

\* ---- transport constants (transport.h), in bytes and ticks ----
kMaxTransportMessageSize == 67108864
kMaxTransportChunkSize == 65536
kImmediateTimeout == 0
kMinTimeout == 1
kStallTimeout == 2
kDefaultInitialTimeout == 3
\* kTimeoutFactor, as the number of bytes that add one tick to a send timeout
BytesPerTick == 65536

\* ---- transport conditions ----
kSendFailure == "kSendFailure"
kSendTimeout == "kSendTimeout"
kReceiveFailure == "kReceiveFailure"
kReceiveTimeout == "kReceiveTimeout"
kMessageSizeTooLarge == "kMessageSizeTooLarge"

\* boost::posix_time::pos_infin: later than every time the clock reaches
pos_infin == 1000000

\* no asynchronous operation outstanding on the socket
NoIo == [kind |-> "none", status |-> "none"]

\* TcpConnection::TcpConnection. Besides the members: origin says whether
\* Send or HandleAccept made the connection, io, wait_armed, wait_queued,
\* tasks and posted are its handlers in flight, closed_by is the statement
\* that closed the socket, frames counts the size prefixes decoded and
\* closes the runs of DoClose. expires_at and response_deadline are not
\* read before they are set.
TcpConnection ==
  [ origin                |-> "none",
    socket_open           |-> FALSE,
    closed_by             |-> "none",
    expires_at            |-> pos_infin,
    wait_armed            |-> FALSE,
    wait_queued           |-> FALSE,
    io                    |-> NoIo,
    size_buffer           |-> <<0, 0, 0, 0>>,
    data_buffer           |-> 0,
    data_size             |-> 0,
    data_received         |-> 0,
    response_deadline     |-> pos_infin,
    timeout_for_response  |-> kDefaultInitialTimeout,
    tasks                 |-> <<>>,
    posted                |-> 0,
    frames                |-> 0,
    closes                |-> 0 ]

\* TcpTransport::TcpTransport, with the two sinks of the Transport base;
\* acceptor_ says whether the pointer holds an acceptor, is_open whether
\* that acceptor is open, accepts counts its outstanding async_accept calls.
TcpTransport ==
  [ alive                |-> TRUE,
    acceptor_            |-> FALSE,
    is_open              |-> FALSE,
    listening_port       |-> 0,
    accepts              |-> 0,
    connections          |-> {},
    strand               |-> <<>>,
    on_error             |-> <<>>,
    on_message_received  |-> <<>> ]

(***************************************************************************)
(* Inputs.                                                                 *)
(***************************************************************************)
\* signed data offered as appendix, control field or ownership proof:
\* every data value signed by each valid key or carrying a bad signature,
\* and a second, different signature of the tag by key "K"
SignedDatas ==
  {SignedData(d, Sign(k, d, 0)) : d \in DataValues, k \in ValidKeys}
  \cup {SignedData(d, BadSignature) : d \in DataValues}
  \cup {SignedData(<<kAppendableByAll>>, Sign("K", <<kAppendableByAll>>, 1))}

\* a SignedData field left unset: empty data, no signature
UnsetSignedData == SignedData(<<>>, BadSignature)

\* identity blocks offered to Store
IdentityKeys == {SignedData(<<0>>, Sign("K", <<0>>, 0)), UnsetSignedData}

\* bodies offered to Store
StoreContents ==
  {SerializeAppendableByAll(
     [identity_key |-> ik, allow_others_to_append |-> al, appendices |-> <<>>])
     : ik \in IdentityKeys, al \in SignedDatas}
  \cup {Garbage, EmptyBytes}

\* control-field pairs offered to an owner Modify: one field set, or both
\* set with a good or a bad signature
BothSet ==
  {SignedData(<<kAppendableByAll>>, Sign("K", <<kAppendableByAll>>, 0)),
   SignedData(<<0>>, BadSignature)}

\* identity blocks offered to an owner Modify: the stored data again, new
\* data signed by either key, a bad signature
IdentityKeyUpdates ==
  {SignedData(<<0>>, Sign("K", <<0>>, 0)),
   SignedData(<<kAppendableByAll>>, Sign("K", <<kAppendableByAll>>, 0)),
   SignedData(<<kAppendableByAll>>, Sign("O", <<kAppendableByAll>>, 0)),
   SignedData(<<0>>, BadSignature)}

ModifyRecords ==
  {[allow_others_to_append |-> al, identity_key |-> UnsetSignedData]
     : al \in SignedDatas}
  \cup {[allow_others_to_append |-> UnsetSignedData, identity_key |-> ik]
     : ik \in IdentityKeyUpdates}
  \cup {[allow_others_to_append |-> al, identity_key |-> ik]
     : al \in BothSet, ik \in BothSet}

\* contents offered to Modify: an appendix, or new control fields
ModifyContents ==
  {SerializeSignedData(sd) : sd \in SignedDatas}
  \cup {SerializeModifyAppendableByAll(m) : m \in ModifyRecords}
  \cup {Garbage, EmptyBytes}

\* ownership proofs offered to Delete
OwnershipProofs ==
  {SerializeSignedData(sd) : sd \in SignedDatas} \cup {Garbage, EmptyBytes}

(***************************************************************************)
(* Actions.                                                                *)
(***************************************************************************)
InitCAA ==
  /\ store = [n \in Names |-> EmptyBytes]
  /\ op = "none"
  /\ name \in Names
  /\ public_key \in {"K"}
  /\ content = EmptyBytes
  /\ rc = kSuccess
  /\ result_content = EmptyBytes
  /\ now = 0
  /\ conn = TcpConnection
  /\ transport = TcpTransport
  /\ vm = VaultManager(SerializeConfig(kInitialUpdateInterval, <<>>), TRUE, {})

Get_CleansUp(n, pk) ==
  LET r == ProcessGet(n, pk, store)
  IN  /\ op' = "Get"
      /\ name' = n
      /\ public_key' = pk
      /\ content' = EmptyBytes
      /\ rc' = r.rc
      /\ result_content' = r.content
      /\ store' = IF r.rc = kSuccess THEN [store EXCEPT ![n] = r.content]
                  ELSE store
      /\ UNCHANGED <<tcpVars, vmVars>>

Get(n, pk) ==
  LET r == ProcessGet(n, pk, store)
  IN  /\ op' = "Get"
      /\ name' = n
      /\ public_key' = pk
      /\ content' = EmptyBytes
      /\ rc' = r.rc
      /\ result_content' = r.content
      /\ UNCHANGED <<store, tcpVars, vmVars>>

Store(n, c, pk) ==
  /\ op' = "Store"
  /\ name' = n
  /\ public_key' = pk
  /\ content' = c
  /\ rc' = ProcessStore(n, c, pk, store)
  /\ result_content' = EmptyBytes
  /\ UNCHANGED <<store, tcpVars, vmVars>>

Delete(n, proof, pk) ==
  /\ op' = "Delete"
  /\ name' = n
  /\ public_key' = pk
  /\ content' = proof
  /\ rc' = ProcessDelete(n, proof, pk, store)
  /\ result_content' = EmptyBytes
  /\ UNCHANGED <<store, tcpVars, vmVars>>

Modify(n, c, pk) ==
  LET r == ProcessModify(n, c, pk, store)
  IN  /\ op' = "Modify"
      /\ name' = n
      /\ public_key' = pk
      /\ content' = c
      /\ rc' = r.rc
      /\ result_content' = r.content
      /\ UNCHANGED <<store, tcpVars, vmVars>>

Has(n, pk) ==
  /\ op' = "Has"
  /\ name' = n
  /\ public_key' = pk
  /\ content' = EmptyBytes
  /\ rc' = ProcessHas(n, store)
  /\ result_content' = EmptyBytes
  /\ UNCHANGED <<store, tcpVars, vmVars>>

Validate(n) ==
  /\ op' = "IsValidChunk"
  /\ name' = n
  /\ public_key' = public_key
  /\ content' = EmptyBytes
  /\ rc' = IF IsValidChunk(n, store) THEN "true" ELSE "false"
  /\ result_content' = EmptyBytes
  /\ UNCHANGED <<store, tcpVars, vmVars>>

Version(n) ==
  /\ op' = "GetVersion"
  /\ name' = n
  /\ public_key' = public_key
  /\ content' = EmptyBytes
  /\ rc' = kSuccess
  /\ result_content' = GetVersion(n, store)
  /\ UNCHANGED <<store, tcpVars, vmVars>>

\* The caller of the rules commits what a successful call prescribes.
CommitStore ==
  /\ op = "Store"
  /\ rc = kSuccess
  /\ store' = [store EXCEPT ![name] = content]
  /\ op' = "CommitStore"
  /\ UNCHANGED <<name, public_key, content, rc, result_content, tcpVars, vmVars>>

CommitModify ==
  /\ op = "Modify"
  /\ rc = kSuccess
  /\ Len(ParseAppendableByAll(result_content).appendices) <= MaxAppendices
  /\ store' = [store EXCEPT ![name] = result_content]
  /\ op' = "CommitModify"
  /\ UNCHANGED <<name, public_key, content, rc, result_content, tcpVars, vmVars>>

CommitDelete ==
  /\ op = "Delete"
  /\ rc = kSuccess
  /\ store' = [store EXCEPT ![name] = EmptyBytes]
  /\ op' = "CommitDelete"
  /\ UNCHANGED <<name, public_key, content, rc, result_content, tcpVars, vmVars>>

NextCAA ==
  \/ \E n \in Names, pk \in PublicKeys : Get(n, pk)
  \/ \E n \in Names, c \in StoreContents, pk \in PublicKeys : Store(n, c, pk)
  \/ \E n \in Names, p \in OwnershipProofs, pk \in PublicKeys : Delete(n, p, pk)
  \/ \E n \in Names, c \in ModifyContents, pk \in PublicKeys : Modify(n, c, pk)
  \/ \E n \in Names, pk \in PublicKeys : Has(n, pk)
  \/ \E n \in Names : Validate(n)
  \/ \E n \in Names : Version(n)
  \/ CommitStore
  \/ CommitModify
  \/ CommitDelete

SpecCAA == InitCAA /\ [][NextCAA]_caaVars

(***************************************************************************)
(* Properties of the chunk-action rules.                                   *)
(***************************************************************************)
\* the stored body the last call found, parsed
E == ParseAppendableByAll(StoreGet(store, name))
\* the last call found a body that parses as an APPENDABLE_BY_ALL record
FoundChunk == ParsesAs(StoreGet(store, name), "AppendableByAll")
\* the content of the last call, parsed as new control fields
M == ParseModifyAppendableByAll(content)
\* the post-image or view returned by the last call, parsed
R == ParseAppendableByAll(result_content)

\* appendices lists a stored chunk may carry
AppendixLists ==
  {<<>>} \cup {<<a>> : a \in SignedDatas}
         \cup {<<a, b>> : a \in SignedDatas, b \in SignedDatas}

\* C1: a Get by a valid key that is not the owner returns kNotOwner and the
\* serialised identity_key alone, and the same result for every chunk that
\* differs from the stored one only in its appendices.
C1_NonOwnerGet ==
  (op = "Get" /\ FoundChunk /\ ValidateKey(public_key)
     /\ ~IsOwner(E, public_key))
  => /\ rc = kNotOwner
     /\ result_content = SerializeSignedData(E.identity_key)
     /\ \A apps \in AppendixLists :
          ProcessGet(name, public_key,
                     [store EXCEPT ![name] = SerializeAppendableByAll(
                                      [E EXCEPT !.appendices = apps])])
            = Result(rc, result_content)

C1_Witness ==
  /\ op = "Get" /\ FoundChunk /\ ValidateKey(public_key)
  /\ ~IsOwner(E, public_key)
  /\ E.appendices # <<>>
  /\ rc = kNotOwner

C3_NonOwnerAppend ==
  (op = "Modify" /\ FoundChunk /\ ValidateKey(public_key)
     /\ ~IsOwner(E, public_key)
     /\ FirstByte(E.allow_others_to_append.data) = kAppendableByAll
     /\ ParsesAs(content, "SignedData")
     /\ CheckSignature(ParseSignedData(content).data,
                       ParseSignedData(content).signature, public_key))
  => /\ rc = kSuccess
     /\ ParsesAs(result_content, "AppendableByAll")
     /\ Len(R.appendices) = Len(E.appendices) + 1
     /\ R.appendices[Len(R.appendices)] = ParseSignedData(content)
     /\ SubSeq(R.appendices, 1, Len(E.appendices)) = E.appendices
     /\ R.identity_key = E.identity_key
     /\ R.allow_others_to_append = E.allow_others_to_append

C3_Witness ==
  /\ op = "Modify" /\ FoundChunk /\ ValidateKey(public_key)
  /\ ~IsOwner(E, public_key)
  /\ ParsesAs(content, "SignedData")
  /\ rc = kSuccess
  /\ Len(E.appendices) >= 1
  /\ E.appendices[1] # ParseSignedData(content)

\* C4: an owner Modify that supplies only allow_others_to_append, correctly
\* signed, with the stored data, returns kSuccess and the pre-image with the
\* appendices cleared (stored signature kept).
C4_OwnerSameAllow ==
  (op = "Modify" /\ FoundChunk /\ IsOwner(E, public_key)
     /\ ParsesAs(content, "ModifyAppendableByAll")
     /\ M.identity_key.data = <<>>
     /\ M.allow_others_to_append.data # <<>>
     /\ CheckSignature(M.allow_others_to_append.data,
                       M.allow_others_to_append.signature, public_key)
     /\ M.allow_others_to_append.data = E.allow_others_to_append.data)
  => /\ rc = kSuccess
     /\ ParsesAs(result_content, "AppendableByAll")
     /\ R = ClearAppendices(E)

C4_Witness ==
  /\ op = "Modify" /\ FoundChunk /\ IsOwner(E, public_key)
  /\ ParsesAs(content, "ModifyAppendableByAll")
  /\ M.identity_key.data = <<>>
  /\ M.allow_others_to_append.data = E.allow_others_to_append.data
  /\ M.allow_others_to_append.signature # E.allow_others_to_append.signature
  /\ E.appendices # <<>>
  /\ rc = kSuccess

\* C5 as stated: for every stored chunk and every key, a Delete whose
\* ownership_proof does not parse as SignedData yields kNotOwner.
C5_AnyKeyNotOwner ==
  (op = "Delete" /\ StoreHas(store, name) /\ ~ParsesAs(content, "SignedData"))
  => rc = kNotOwner

\* C5 amended: for every stored chunk and the valid key that verifies its
\* allow_others_to_append, a Delete whose ownership_proof does not parse as
\* SignedData yields kNotOwner and leaves the chunk store unchanged.
C5_OwnerNotOwner ==
  [][(op' = "Delete" /\ ParsesAs(StoreGet(store, name'), "AppendableByAll")
        /\ IsOwner(ParseAppendableByAll(StoreGet(store, name')), public_key')
        /\ ~ParsesAs(content', "SignedData"))
     => (rc' = kNotOwner /\ store' = store)]_caaVars

C5_Witness ==
  /\ op = "Delete" /\ FoundChunk /\ IsOwner(E, public_key)
  /\ ~ParsesAs(content, "SignedData")
  /\ rc = kNotOwner

\* C6: Store returns kKeyNotUnique whenever the store holds the name,
\* whatever the content and the key; otherwise the first failing check of
\* parse, key validity, signature; a committed Store leaves the name held.
C6_StoreOrder ==
  /\ op = "Store" =>
       rc = IF StoreHas(store, name) THEN kKeyNotUnique
            ELSE IF ~ParsesAs(content, "AppendableByAll")
              THEN kInvalidSignedData
            ELSE IF ~ValidateKey(public_key) THEN kInvalidPublicKey
            ELSE IF ~IsOwner(ParseAppendableByAll(content), public_key)
              THEN kSignatureVerificationFailure
            ELSE kSuccess
  /\ op = "CommitStore" => StoreHas(store, name)

C6_Witness ==
  /\ op = "Store" /\ StoreHas(store, name)
  /\ ~ParsesAs(content, "AppendableByAll")
  /\ ~ValidateKey(public_key)
  /\ rc = kKeyNotUnique

\* C7: a Delete on a name the store holds no body for returns kSuccess for
\* every key and every ownership_proof; so does a Delete that follows a
\* committed Delete of the name.
C7_DeleteIdempotent ==
  [][/\ (op' = "Delete" /\ StoreGet(store, name') = EmptyBytes)
          => rc' = kSuccess
     /\ (op = "CommitDelete" /\ op' = "Delete" /\ name' = name)
          => rc' = kSuccess]_caaVars

C7_Witness ==
  /\ op = "Delete" /\ StoreGet(store, name) = EmptyBytes
  /\ ~ValidateKey(public_key)
  /\ content = Garbage
  /\ rc = kSuccess

\* C8: a Delete of an existing, parseable chunk returns kSuccess only to a
\* valid owner key with an ownership_proof that parses and verifies under
\* it; a valid non-owner key gets kSignatureVerificationFailure whatever the
\* proof, an owner whose proof's signature fails gets kNotOwner.
C8_DeleteAuthorised ==
  (op = "Delete" /\ FoundChunk)
  => /\ rc = kSuccess =>
          /\ ValidateKey(public_key)
          /\ IsOwner(E, public_key)
          /\ ParsesAs(content, "SignedData")
          /\ CheckSignature(ParseSignedData(content).data,
                            ParseSignedData(content).signature, public_key)
     /\ (ValidateKey(public_key) /\ ~IsOwner(E, public_key))
          => rc = kSignatureVerificationFailure
     /\ (IsOwner(E, public_key) /\ ParsesAs(content, "SignedData")
           /\ ~CheckSignature(ParseSignedData(content).data,
                              ParseSignedData(content).signature, public_key))
          => rc = kNotOwner

C8_Witness ==
  /\ op = "Delete" /\ FoundChunk
  /\ IsOwner(E, public_key)
  /\ ParsesAs(content, "SignedData")
  /\ rc = kSuccess

\* C9: an owner Modify whose content has both control fields empty or both
\* non-empty returns kInvalidModify and no post-image, whatever the
\* signatures of the content.
C9_ExactlyOne ==
  (op = "Modify" /\ FoundChunk /\ IsOwner(E, public_key)
     /\ ParsesAs(content, "ModifyAppendableByAll")
     /\ (M.allow_others_to_append.data = <<>>) = (M.identity_key.data = <<>>))
  => /\ rc = kInvalidModify
     /\ result_content = EmptyBytes

C9_Witness ==
  /\ op = "Modify" /\ FoundChunk /\ IsOwner(E, public_key)
  /\ ParsesAs(content, "ModifyAppendableByAll")
  /\ M.allow_others_to_append.data # <<>>
  /\ M.identity_key.data # <<>>
  /\ ~CheckSignature(M.allow_others_to_append.data,
                     M.allow_others_to_append.signature, public_key)
  /\ rc = kInvalidModify

\* C10: an owner Modify that supplies exactly one correctly signed control
\* field whose data differs from the stored one returns the pre-image with
\* that field replaced by the content's (data and signature); the other
\* control field and the appendices are unchanged.
C10_OwnerReplace ==
  (op = "Modify" /\ FoundChunk /\ IsOwner(E, public_key)
     /\ ParsesAs(content, "ModifyAppendableByAll"))
  => /\ (/\ M.identity_key.data = <<>>
         /\ M.allow_others_to_append.data # <<>>
         /\ CheckSignature(M.allow_others_to_append.data,
                           M.allow_others_to_append.signature, public_key)
         /\ M.allow_others_to_append.data # E.allow_others_to_append.data)
        => /\ rc = kSuccess
           /\ ParsesAs(result_content, "AppendableByAll")
           /\ R.allow_others_to_append = M.allow_others_to_append
           /\ R.identity_key = E.identity_key
           /\ R.appendices = E.appendices
     /\ (/\ M.allow_others_to_append.data = <<>>
         /\ M.identity_key.data # <<>>
         /\ CheckSignature(M.identity_key.data,
                           M.identity_key.signature, public_key)
         /\ M.identity_key.data # E.identity_key.data)
        => /\ rc = kSuccess
           /\ ParsesAs(result_content, "AppendableByAll")
           /\ R.identity_key = M.identity_key
           /\ R.allow_others_to_append = E.allow_others_to_append
           /\ R.appendices = E.appendices

C10_Witness ==
  /\ op = "Modify" /\ FoundChunk /\ IsOwner(E, public_key)
  /\ ParsesAs(content, "ModifyAppendableByAll")
  /\ M.allow_others_to_append.data = <<>>
  /\ M.identity_key.data # <<>>
  /\ M.identity_key.data # E.identity_key.data
  /\ E.appendices # <<>>
  /\ rc = kSuccess
  /\ R.identity_key = M.identity_key

\* the appendability byte of the stored chunk is the APPENDABLE_BY_ALL tag
AppendsAllowed ==
  FirstByte(E.allow_others_to_append.data) = kAppendableByAll

\* C11: while the first data byte of the stored allow_others_to_append
\* differs from the APPENDABLE_BY_ALL tag, every Modify by a valid non-owner
\* key returns kAppendDisallowed and no post-image, whatever its content;
\* while it equals the tag, the answer is never kAppendDisallowed and a
\* correctly signed appendix is accepted; and the post-image of a non-owner
\* Modify carries the stored flag unchanged, so only the owner ends either
\* phase.
C11_AppendDisallowed ==
  (op = "Modify" /\ FoundChunk /\ ValidateKey(public_key)
     /\ ~IsOwner(E, public_key))
  => /\ ~AppendsAllowed =>
          (rc = kAppendDisallowed /\ result_content = EmptyBytes)
     /\ AppendsAllowed =>
          /\ rc # kAppendDisallowed
          /\ (/\ ParsesAs(content, "SignedData")
              /\ CheckSignature(ParseSignedData(content).data,
                                ParseSignedData(content).signature,
                                public_key))
             => rc = kSuccess
     /\ rc = kSuccess =>
          R.allow_others_to_append = E.allow_others_to_append

\* the owner has forbidden appends on a chunk that holds an appendix, and a
\* correctly signed appendix of a non-owner is refused
C11_Witness ==
  /\ op = "Modify" /\ FoundChunk /\ ValidateKey(public_key)
  /\ ~IsOwner(E, public_key)
  /\ E.allow_others_to_append.data # <<>>
  /\ ~AppendsAllowed
  /\ E.appendices # <<>>
  /\ ParsesAs(content, "SignedData")
  /\ CheckSignature(ParseSignedData(content).data,
                    ParseSignedData(content).signature, public_key)
  /\ rc = kAppendDisallowed

C13_OwnerSeesAppendices ==
  (op = "Get" /\ FoundChunk /\ ValidateKey(public_key))
  => IF IsOwner(E, public_key)
       THEN /\ rc = kSuccess
            /\ ParsesAs(result_content, "AppendableByAll")
            /\ \A i \in 1..Len(E.appendices) :
                 \E j \in 1..Len(R.appendices) :
                   R.appendices[j] = E.appendices[i]
       ELSE ~ParsesAs(result_content, "AppendableByAll")

\* the keys that pass the owner check of the chunk stored under n
Owners(st, n) ==
  {k \in PublicKeys : IsOwner(ParseAppendableByAll(StoreGet(st, n)), k)}

\* C37: ownership of a chunk does not change hands.  The key whose Store is
\* committed is the one key that passes the owner check of the stored chunk;
\* a committed Modify leaves the set of keys that pass the owner check as it
\* was, and a committed Modify by a key that is not the owner leaves
\* allow_others_to_append and identity_key as they were.
C37_OwnershipKept ==
  [][/\ op' = "CommitStore" /\ op # "CommitStore"
        => Owners(store', name) = {public_key}
     /\ op' = "CommitModify" /\ op # "CommitModify"
        => LET before == ParseAppendableByAll(StoreGet(store, name))
               after == ParseAppendableByAll(StoreGet(store', name))
           IN  /\ Owners(store', name) = Owners(store, name)
               /\ Cardinality(Owners(store', name)) = 1
               /\ ~IsOwner(before, public_key)
                    => /\ after.allow_others_to_append =
                            before.allow_others_to_append
                       /\ after.identity_key = before.identity_key]_caaVars

\* the owner K has replaced allow_others_to_append of a chunk that holds an
\* appendix of another key, and still passes the owner check alone
C37_Witness ==
  /\ op = "CommitModify"
  /\ public_key = "K"
  /\ Owners(store, name) = {"K"}
  /\ LET chunk == ParseAppendableByAll(StoreGet(store, name))
     IN  /\ chunk.allow_others_to_append.data = <<0>>
         /\ Len(chunk.appendices) = 1
         /\ chunk.appendices[1].signature.signer = "O"

(***************************************************************************)
(* The framed TCP transport: tcp_connection.cc and tcp_transport.cc.       *)
(* conn.io is the one asynchronous operation outstanding on the socket     *)
(* with the status of its completion; conn.tasks is the connection         *)
(* strand's queue of dispatched calls; conn.wait_armed and                 *)
(* conn.wait_queued say whether waits of the deadline timer are pending    *)
(* and whether completions of them are queued (several waits of one timer  *)
(* end together and run the same CheckTimeout, so they are kept as one).   *)
(* Buffers are kept by their length.                                       *)
(***************************************************************************)
Min(a, b) == IF a <= b THEN a ELSE b
Max(a, b) == IF a >= b THEN a ELSE b

\* A DataSize has 32 bits and no sign; the sizes here stay below 2^31, where
\* static_cast<DataSize> keeps the value.

\* an element of size_buffer_
Byte(x) == x % 256

EncodeData_LowByteFirst(size) ==
  << Byte(size),
     Byte(size \div 256),
     Byte(size \div 65536),
     Byte(size \div 16777216) >>

\* TcpConnection::EncodeData, the size prefix:
\* size_buffer_.at(i) = static_cast<char>(msg_size >> (8 * (3 - i)))
EncodeData(size) ==
  << Byte(size \div 16777216),
     Byte(size \div 65536),
     Byte(size \div 256),
     Byte(size) >>

\* the decoding in HandleReadSize:
\* (((((b0 << 8) | b1) << 8) | b2) << 8) | b3
DecodeSize(size_buffer) ==
  (((size_buffer[1] * 256 + size_buffer[2]) * 256
       + size_buffer[3]) * 256) + size_buffer[4]

\* the connection's socket holds an operation whose handler has not run
Pending(kind) == [kind |-> kind, status |-> "pending"]

\* an operation started on a socket that is not open completes with an error
Started(c, kind) ==
  [kind |-> kind, status |-> IF c.socket_open THEN "pending" ELSE "error"]

\* socket_.close(ignored_ec): the outstanding operation completes with
\* operation_aborted
SocketClose(c, by) ==
  [c EXCEPT !.socket_open = FALSE,
            !.closed_by = IF c.socket_open THEN by ELSE @,
            !.io = IF @.status = "pending"
                     THEN [@ EXCEPT !.status = "aborted"] ELSE @]

\* timer_.cancel(): the pending waits complete
TimerCancel(c) ==
  [c EXCEPT !.wait_queued = @ \/ c.wait_armed, !.wait_armed = FALSE]

\* timer_.expires_at(t), timer_.expires_from_now(d): the pending waits
\* complete and the expiry is set
TimerExpiresAt(c, t) == [TimerCancel(c) EXCEPT !.expires_at = t]

\* TcpConnection::CheckTimeout
CheckTimeout(c, ec, t) ==
  IF ec = "error" THEN SocketClose(c, "CheckTimeout")
  ELSE IF ~c.socket_open THEN c
  ELSE IF c.expires_at <= t THEN SocketClose(c, "CheckTimeout")
  ELSE [c EXCEPT !.wait_armed = TRUE]

\* TcpConnection::StartReadSize
StartReadSize(c, t) ==
  LET response_deadline == t + c.timeout_for_response
  IN  TimerExpiresAt([c EXCEPT !.io = Started(c, "read_size"),
                               !.response_deadline = response_deadline],
                     Min(response_deadline, t + kStallTimeout))

StartReadData_WholeFrame(c, t) ==
  TimerExpiresAt([c EXCEPT !.data_buffer = c.data_received
                             + kMaxTransportChunkSize,
                           !.io = Started(c, "read_data")],
                 Min(c.response_deadline, t + kStallTimeout))

\* TcpConnection::StartReadData
StartReadData(c, t) ==
  LET buffer_size == c.data_received
                       + Min(kMaxTransportChunkSize,
                             c.data_size - c.data_received)
  IN  TimerExpiresAt([c EXCEPT !.data_buffer = buffer_size,
                               !.io = Started(c, "read_data")],
                     Min(c.response_deadline, t + kStallTimeout))

\* the timeout of a write: max(data_buffer_.size() * kTimeoutFactor,
\* kMinTimeout)
WriteTimeout(size) == Max(size \div BytesPerTick, kMinTimeout)

\* TcpConnection::StartWrite
StartWrite(c, t) ==
  CheckTimeout(TimerExpiresAt([c EXCEPT !.io = Started(c, "write")],
                              t + WriteTimeout(c.data_buffer)),
               "none", t)

\* TcpConnection::StartConnect: async_connect opens the socket
StartConnect(c, t) ==
  TimerExpiresAt([c EXCEPT !.socket_open = TRUE, !.io = Pending("connect")],
                 t + kDefaultInitialTimeout)

\* ---- handlers: w is the pair of the connection c and its transport t ----
\* the handler of the outstanding operation runs: the operation is over
Completed(w) == [w EXCEPT !.c.io = NoIo]

\* the error code the handler of the outstanding operation is given
Failed(w) == w.c.io.status # "ok"

\* TcpTransport::RemoveConnection
RemoveConnection(t) == [t EXCEPT !.strand = Append(@, "DoRemoveConnection")]

DoClose_KeepsTimer(w) ==
  [c |-> [SocketClose(w.c, "DoClose") EXCEPT !.closes = @ + 1],
   t |-> IF w.t.alive THEN RemoveConnection(w.t) ELSE w.t]

\* TcpConnection::DoClose
DoClose(w) ==
  [c |-> [TimerCancel(SocketClose(w.c, "DoClose")) EXCEPT !.closes = @ + 1],
   t |-> IF w.t.alive THEN RemoveConnection(w.t) ELSE w.t]

CloseOnError_NoClose(w, error) ==
  IF w.t.alive THEN [w EXCEPT !.t.on_error = Append(@, error)] ELSE w

\* TcpConnection::CloseOnError
CloseOnError(w, error) ==
  DoClose(IF w.t.alive THEN [w EXCEPT !.t.on_error = Append(@, error)]
          ELSE w)

\* TcpConnection::HandleConnect
HandleConnect(w, t) ==
  IF Failed(w) THEN CloseOnError(Completed(w), kSendFailure)
  ELSE IF ~w.c.socket_open THEN CloseOnError(Completed(w), kSendTimeout)
  ELSE [Completed(w) EXCEPT !.c = StartWrite(@, t)]

HandleWrite_AlwaysReads(w, t) ==
  IF Failed(w) THEN CloseOnError(Completed(w), kSendFailure)
  ELSE IF ~w.c.socket_open THEN CloseOnError(Completed(w), kSendTimeout)
  ELSE [Completed(w) EXCEPT !.c = StartReadSize(@, t)]

\* TcpConnection::HandleWrite
HandleWrite(w, t) ==
  IF Failed(w) THEN CloseOnError(Completed(w), kSendFailure)
  ELSE IF ~w.c.socket_open THEN CloseOnError(Completed(w), kSendTimeout)
  ELSE IF w.c.timeout_for_response # kImmediateTimeout
    THEN [Completed(w) EXCEPT !.c = StartReadSize(@, t)]
  ELSE DoClose(Completed(w))

\* TcpConnection::HandleReadSize
HandleReadSize(w, t) ==
  LET checked == [Completed(w) EXCEPT !.c = CheckTimeout(@, "none", t)]
  IN  IF Failed(w) THEN CloseOnError(Completed(w), kReceiveFailure)
      ELSE IF ~checked.c.socket_open
        THEN CloseOnError(checked, kReceiveTimeout)
      ELSE [checked EXCEPT
              !.c = StartReadData(
                      [@ EXCEPT !.data_size = DecodeSize(checked.c.size_buffer),
                                !.data_received = 0,
                                !.frames = @ + 1], t)]

HandleReadData_KeepsDeadline(w, t) ==
  LET length == w.c.data_buffer - w.c.data_received
      checked == [Completed(w) EXCEPT !.c = CheckTimeout(@, "none", t)]
      data_received == w.c.data_received + length
  IN  IF Failed(w) THEN CloseOnError(Completed(w), kReceiveFailure)
      ELSE IF ~checked.c.socket_open
        THEN CloseOnError(checked, kReceiveTimeout)
      ELSE IF data_received = w.c.data_size
        THEN [checked EXCEPT
                !.c = [@ EXCEPT !.data_received = data_received,
                                !.posted = @ + 1]]
      ELSE [checked EXCEPT
              !.c = StartReadData(
                      [@ EXCEPT !.data_received = data_received], t)]

\* TcpConnection::HandleReadData; length is the number of bytes the read
\* has put behind data_received_, the whole of the buffer it was given
HandleReadData(w, t) ==
  LET length == w.c.data_buffer - w.c.data_received
      checked == [Completed(w) EXCEPT !.c = CheckTimeout(@, "none", t)]
      data_received == w.c.data_received + length
  IN  IF Failed(w) THEN CloseOnError(Completed(w), kReceiveFailure)
      ELSE IF ~checked.c.socket_open
        THEN CloseOnError(checked, kReceiveTimeout)
      ELSE IF data_received = w.c.data_size
        THEN [checked EXCEPT
                !.c = [TimerExpiresAt(@, pos_infin)
                         EXCEPT !.data_received = data_received,
                                !.posted = @ + 1]]
      ELSE [checked EXCEPT
              !.c = StartReadData(
                      [@ EXCEPT !.data_received = data_received], t)]

\* TcpConnection::DispatchMessage; response and response_timeout are what
\* the on_message_received callback leaves in its out-parameters
DispatchMessage(w, response, response_timeout) ==
  LET taken == [w EXCEPT !.c.posted = @ - 1]
      called == [taken EXCEPT
                   !.t.on_message_received =
                      Append(@, [payload |-> w.c.data_buffer,
                                 frame |-> w.c.frames,
                                 response_timeout |-> response_timeout])]
  IN  IF ~w.t.alive THEN taken
      ELSE IF response = 0 \/ response > kMaxTransportMessageSize
        THEN [called EXCEPT !.c.tasks = Append(@, "DoClose")]
      ELSE [called EXCEPT
              !.c = [@ EXCEPT !.size_buffer = EncodeData(response),
                              !.data_buffer = response,
                              !.timeout_for_response = response_timeout,
                              !.tasks = Append(@, "StartWrite")]]

(***************************************************************************)
(* Bounds and inputs of the transport.                                     *)
(***************************************************************************)
MaxTime == 3        \* the clock stops here
MaxFrames == 1      \* size prefixes the peer sends on the connection
MaxReads == 2       \* payload chunks the peer sends for one frame
MaxErrors == 1      \* oversized Send calls

\* the connection of the model, as an element of connections_
Self == "connection"

\* payload sizes given to Send
SendSizes ==
  {1, 200, 8421504, kMaxTransportMessageSize, kMaxTransportMessageSize + 1}

\* response timeouts given to Send or left by the callback
Timeouts == {kImmediateTimeout, kMinTimeout, kDefaultInitialTimeout}

\* response sizes the callback leaves
ResponseSizes == {0, 200, kMaxTransportMessageSize + 1}

\* size prefixes the peer sends: 0, 1, 65537 and 67108865 bytes
Prefixes == {<<0, 0, 0, 0>>, <<0, 0, 0, 1>>, <<0, 1, 0, 1>>, <<4, 0, 0, 1>>}

W == [c |-> conn, t |-> transport]

\* ---- the acceptor ----
\* TcpTransport::StartListening; failure names the call on the new acceptor
\* that fails: "open", "option", "bind", "listen", or "none"
StartListening(t, port, failure) ==
  IF t.listening_port # 0 THEN [rc |-> "kAlreadyStarted", t |-> t]
  ELSE IF port = 0 THEN [rc |-> "kInvalidPort", t |-> t]
  ELSE IF failure = "open"
    THEN [rc |-> "kInvalidAddress",
          t |-> [t EXCEPT !.acceptor_ = TRUE, !.is_open = FALSE]]
  ELSE IF failure # "none"
    THEN [rc |-> CASE failure = "option" -> "kSetOptionFailure"
                   [] failure = "bind" -> "kBindError"
                   [] OTHER -> "kListenError",
          t |-> [t EXCEPT !.acceptor_ = TRUE, !.is_open = TRUE]]
  ELSE [rc |-> kSuccess,
        t |-> [t EXCEPT !.acceptor_ = TRUE, !.is_open = TRUE,
                        !.listening_port = port, !.accepts = 1]]

\* TcpTransport::StopListening, called from outside the strand
StopListening(t) ==
  [t EXCEPT !.strand = IF t.acceptor_ THEN Append(@, "CloseAcceptor") ELSE @,
            !.listening_port = 0,
            !.acceptor_ = FALSE]

\* TcpTransport::CloseAcceptor
CloseAcceptor(t) == [t EXCEPT !.is_open = FALSE]

\* the connection given to async_accept: the connection of the model while
\* it is fresh, another connection afterwards
NewConnection(c) == IF c.origin = "none" THEN Self ELSE "other"

\* TcpConnection::StartReceiving of the connection that was accepted
StartReceiving(c) ==
  [c EXCEPT !.origin = "accept",
            !.socket_open = TRUE,
            !.tasks = Append(@, "DoStartReceiving")]

HandleAccept_NoOpenCheck(w, ec) ==
  LET accepted ==
        IF ec # "none" THEN w
        ELSE [c |-> IF NewConnection(w.c) = Self
                      THEN StartReceiving(w.c) ELSE w.c,
              t |-> [w.t EXCEPT !.connections = @ \cup {NewConnection(w.c)}]]
  IN  [accepted EXCEPT !.t.accepts = @ + 1]

\* TcpTransport::HandleAccept
HandleAccept(w, ec) ==
  LET accepted ==
        IF ec # "none" THEN w
        ELSE [c |-> IF NewConnection(w.c) = Self
                      THEN StartReceiving(w.c) ELSE w.c,
              t |-> [w.t EXCEPT !.connections = @ \cup {NewConnection(w.c)}]]
  IN  IF ~w.t.is_open THEN w
      ELSE [accepted EXCEPT !.t.accepts = @ + 1]

\* ports given to StartListening, and the calls that fail
Ports == {0, 1}
ListenFailures == {"none", "open", "bind"}

\* the transport once StartListening has returned kSuccess
Listening == StartListening(TcpTransport, 1, "none").t

InitTcp ==
  /\ now = 0
  /\ conn = TcpConnection
  /\ transport = Listening
  /\ store = [n \in Names |-> EmptyBytes]
  /\ op = "none"
  /\ name = "name"
  /\ public_key = "K"
  /\ content = EmptyBytes
  /\ rc = kSuccess
  /\ result_content = EmptyBytes
  /\ vm = VaultManager(SerializeConfig(kInitialUpdateInterval, <<>>), TRUE, {})

Send_InsertsDirectly(size, timeout) ==
  /\ transport.alive
  /\ conn.origin = "none"
  /\ IF size > kMaxTransportMessageSize
       THEN /\ Len(transport.on_error) < MaxErrors
            /\ transport' = [transport EXCEPT
                               !.on_error = Append(@, kMessageSizeTooLarge)]
            /\ UNCHANGED conn
       ELSE /\ transport' = [transport EXCEPT !.connections = @ \cup {Self}]
            /\ conn' = [conn EXCEPT
                          !.origin = "send",
                          !.size_buffer = EncodeData(size),
                          !.data_buffer = size,
                          !.timeout_for_response = timeout,
                          !.tasks = Append(@, "DoStartSending")]
  /\ UNCHANGED <<now, caaVars, vmVars>>

\* TcpTransport::Send
Send(size, timeout) ==
  /\ transport.alive
  /\ conn.origin = "none"
  /\ IF size > kMaxTransportMessageSize
       THEN /\ Len(transport.on_error) < MaxErrors
            /\ transport' = [transport EXCEPT
                               !.on_error = Append(@, kMessageSizeTooLarge)]
            /\ UNCHANGED conn
       ELSE /\ transport' = [transport EXCEPT
                               !.strand = Append(@, "DoInsertConnection")]
            /\ conn' = [conn EXCEPT
                          !.origin = "send",
                          !.size_buffer = EncodeData(size),
                          !.data_buffer = size,
                          !.timeout_for_response = timeout,
                          !.tasks = Append(@, "DoStartSending")]
  /\ UNCHANGED <<now, caaVars, vmVars>>

\* an accept of the connection succeeds and TcpTransport::HandleAccept runs
Accept ==
  /\ transport.alive
  /\ conn.origin = "none"
  /\ transport.accepts > 0
  /\ transport.is_open
  /\ conn' = HandleAccept([W EXCEPT !.t.accepts = @ - 1], "none").c
  /\ transport' = HandleAccept([W EXCEPT !.t.accepts = @ - 1], "none").t
  /\ UNCHANGED <<now, caaVars, vmVars>>

\* TcpTransport::~TcpTransport: no handler holds the transport any more
Destroy ==
  /\ transport.alive
  /\ transport.strand = <<>>
  /\ transport' = [transport EXCEPT !.alive = FALSE, !.connections = {}]
  /\ conn' = IF Self \in transport.connections
               THEN [conn EXCEPT !.tasks = Append(@, "DoClose")]
             ELSE conn
  /\ UNCHANGED <<now, caaVars, vmVars>>

\* TcpTransport::DoInsertConnection, in the transport's strand
DoInsertConnection ==
  /\ transport.strand # <<>>
  /\ Head(transport.strand) = "DoInsertConnection"
  /\ transport' = [transport EXCEPT !.strand = Tail(@),
                                    !.connections = @ \cup {Self}]
  /\ UNCHANGED <<now, conn, caaVars, vmVars>>

\* TcpTransport::DoRemoveConnection, in the transport's strand
DoRemoveConnection ==
  /\ transport.strand # <<>>
  /\ Head(transport.strand) = "DoRemoveConnection"
  /\ transport' = [transport EXCEPT !.strand = Tail(@),
                                    !.connections = @ \ {Self}]
  /\ UNCHANGED <<now, conn, caaVars, vmVars>>

\* the next call dispatched to the connection's strand
NextTask == IF conn.tasks = <<>> THEN "none" ELSE Head(conn.tasks)
Taken == [W EXCEPT !.c.tasks = Tail(@)]

\* the state a handler leaves
Leaves(w) ==
  /\ conn' = w.c
  /\ transport' = w.t
  /\ UNCHANGED <<now, caaVars, vmVars>>

\* TcpConnection::DoStartReceiving
DoStartReceiving ==
  /\ NextTask = "DoStartReceiving"
  /\ Leaves([Taken EXCEPT
               !.c = CheckTimeout(StartReadSize(@, now), "none", now)])

\* TcpConnection::DoStartSending
DoStartSending ==
  /\ NextTask = "DoStartSending"
  /\ Leaves([Taken EXCEPT !.c = StartConnect(@, now)])

\* TcpConnection::Close, run by the connection's strand
Close ==
  /\ NextTask = "DoClose"
  /\ Leaves(DoClose(Taken))

\* the StartWrite that DispatchMessage dispatches
Write ==
  /\ NextTask = "StartWrite"
  /\ Leaves([Taken EXCEPT !.c = StartWrite(@, now)])

\* the peer or the network: the outstanding connect, write or payload read
\* completes
IoSucceeds ==
  /\ conn.io.status = "pending"
  /\ conn.io.kind \in {"connect", "write", "read_data"}
  /\ conn.io.kind = "read_data"
       => conn.data_buffer <= MaxReads * kMaxTransportChunkSize
  /\ conn' = [conn EXCEPT !.io.status = "ok"]
  /\ UNCHANGED <<now, transport, caaVars, vmVars>>

\* the peer sends four bytes: the outstanding size read completes
PeerSendsSize(prefix) ==
  /\ conn.io = Pending("read_size")
  /\ conn.frames < MaxFrames
  /\ conn' = [conn EXCEPT !.io.status = "ok", !.size_buffer = prefix]
  /\ UNCHANGED <<now, transport, caaVars, vmVars>>

\* the outstanding operation completes with an error of the network
IoFails ==
  /\ conn.io.status = "pending"
  /\ conn' = [conn EXCEPT !.io.status = "error"]
  /\ UNCHANGED <<now, transport, caaVars, vmVars>>

\* the deadline timer reaches its expiry: its waits complete
TimerExpires ==
  /\ conn.wait_armed
  /\ conn.expires_at <= now
  /\ conn' = [conn EXCEPT !.wait_armed = FALSE, !.wait_queued = TRUE]
  /\ UNCHANGED <<now, transport, caaVars, vmVars>>

\* CheckTimeout as the handler of a completed wait
OnWait ==
  /\ conn.wait_queued
  /\ conn' = CheckTimeout([conn EXCEPT !.wait_queued = FALSE], "none", now)
  /\ UNCHANGED <<now, transport, caaVars, vmVars>>

OnConnect ==
  /\ conn.io.kind = "connect"
  /\ conn.io.status # "pending"
  /\ Leaves(HandleConnect(W, now))

OnWrite ==
  /\ conn.io.kind = "write"
  /\ conn.io.status # "pending"
  /\ Leaves(HandleWrite(W, now))

OnReadSize ==
  /\ conn.io.kind = "read_size"
  /\ conn.io.status # "pending"
  /\ Leaves(HandleReadSize(W, now))

OnReadData ==
  /\ conn.io.kind = "read_data"
  /\ conn.io.status # "pending"
  /\ Leaves(HandleReadData(W, now))

\* the posted DispatchMessage runs, with the callback's answer
OnDispatch(response, response_timeout) ==
  /\ conn.posted > 0
  /\ Leaves(DispatchMessage(W, response, response_timeout))

Tick ==
  /\ now < MaxTime
  /\ now' = now + 1
  /\ UNCHANGED <<conn, transport, caaVars, vmVars>>

NextTcp ==
  \/ \E size \in SendSizes, timeout \in Timeouts : Send(size, timeout)
  \/ Accept
  \/ Destroy
  \/ DoInsertConnection
  \/ DoRemoveConnection
  \/ DoStartReceiving
  \/ DoStartSending
  \/ Close
  \/ Write
  \/ IoSucceeds
  \/ \E prefix \in Prefixes : PeerSendsSize(prefix)
  \/ IoFails
  \/ TimerExpires
  \/ OnWait
  \/ OnConnect
  \/ OnWrite
  \/ OnReadSize
  \/ OnReadData
  \/ \E response \in ResponseSizes, response_timeout \in Timeouts :
       OnDispatch(response, response_timeout)
  \/ Tick

SpecTcp == InitTcp /\ [][NextTcp]_tcpVars

(***************************************************************************)
(* The accept loop: StartListening, StopListening and the handlers that    *)
(* the transport's strand runs, with the first connection it accepts.      *)
(***************************************************************************)
InitAccept ==
  /\ now = 0
  /\ conn = TcpConnection
  /\ transport = TcpTransport
  /\ store = [n \in Names |-> EmptyBytes]
  /\ op = "none"
  /\ name = "name"
  /\ public_key = "K"
  /\ content = EmptyBytes
  /\ rc = kSuccess
  /\ result_content = EmptyBytes
  /\ vm = VaultManager(SerializeConfig(kInitialUpdateInterval, <<>>), TRUE, {})

\* StartListening is called; an acceptor that was stopped has been closed
\* and its last handler has run
Listen(port, failure) ==
  /\ transport.alive
  /\ transport.accepts = 0
  /\ transport.strand = <<>>
  /\ transport' = StartListening(transport, port, failure).t
  /\ UNCHANGED <<now, conn, caaVars, vmVars>>

\* StopListening is called
StopListen ==
  /\ transport.alive
  /\ transport' = StopListening(transport)
  /\ UNCHANGED <<now, conn, caaVars, vmVars>>

\* CloseAcceptor, in the transport's strand
OnCloseAcceptor ==
  /\ transport.strand # <<>>
  /\ Head(transport.strand) = "CloseAcceptor"
  /\ transport' = CloseAcceptor([transport EXCEPT !.strand = Tail(@)])
  /\ UNCHANGED <<now, conn, caaVars, vmVars>>

\* an outstanding async_accept completes: with a connection or an error of
\* the network while the acceptor is open, with operation_aborted once it
\* is closed; the strand is given HandleAccept
AcceptCompletes(ec) ==
  /\ transport.accepts > 0
  /\ ec = "aborted" <=> ~transport.is_open
  /\ transport' = [transport EXCEPT
                     !.accepts = @ - 1,
                     !.strand = Append(@, IF ec = "none" THEN "HandleAccept"
                                          ELSE "HandleAcceptFailed")]
  /\ UNCHANGED <<now, conn, caaVars, vmVars>>

\* HandleAccept, in the transport's strand
OnAccept ==
  /\ transport.strand # <<>>
  /\ Head(transport.strand) \in {"HandleAccept", "HandleAcceptFailed"}
  /\ Leaves(HandleAccept([W EXCEPT !.t.strand = Tail(@)],
                         IF Head(transport.strand) = "HandleAccept"
                           THEN "none" ELSE "error"))

NextAccept ==
  \/ \E port \in Ports, failure \in ListenFailures : Listen(port, failure)
  \/ StopListen
  \/ OnCloseAcceptor
  \/ \E ec \in {"none", "error", "aborted"} : AcceptCompletes(ec)
  \/ OnAccept
  \/ DoStartReceiving
  \/ IoFails
  \/ OnReadSize
  \/ TimerExpires
  \/ OnWait
  \/ DoRemoveConnection
  \/ Tick

SpecAccept == InitAccept /\ [][NextAccept]_tcpVars

(***************************************************************************)
(* Claims about the transport.                                             *)
(***************************************************************************)
\* the calls of on_message_received so far
Delivered == transport.on_message_received

\* a removal of the connection waits in the transport's strand
RemovalQueued ==
  \E i \in 1..Len(transport.strand) : transport.strand[i] = "DoRemoveConnection"

\* the handler of the outstanding operation runs in this step
HandlerRuns(kind) == conn.io.kind = kind /\ conn'.io # conn.io
                       /\ conn.io.status # "pending"

\* C14: on_message_received is called at most once per received frame and
\* only for a complete frame: DispatchMessage is posted exactly when
\* data_received has reached the data_size decoded from the prefix, with a
\* buffer of exactly data_size bytes; while data_received < data_size a
\* further read is outstanding, no read runs past the frame, and nothing is
\* posted or delivered for the frame.
C14_OncePerCompleteFrame ==
  /\ \A i, j \in 1..Len(Delivered) :
       Delivered[i].frame = Delivered[j].frame => i = j
  /\ Len(Delivered) + conn.posted <= conn.frames
  /\ \A i \in 1..Len(Delivered) :
       Delivered[i].frame = conn.frames
         => Delivered[i].payload = conn.data_size
  /\ conn.posted > 0
       => /\ conn.data_received = conn.data_size
          /\ conn.data_buffer = conn.data_size
          /\ conn.io = NoIo
  /\ conn.io.kind = "read_data"
       => /\ conn.posted = 0
          /\ conn.data_received <= conn.data_size
          /\ conn.data_buffer <= conn.data_size
          /\ \A i \in 1..Len(Delivered) : Delivered[i].frame # conn.frames
  /\ (transport.alive /\ conn.socket_open
        /\ Len(Delivered) + conn.posted < conn.frames)
       => conn.io.kind = "read_data"

\* a frame of 65537 bytes, read in two chunks, has been delivered whole
C14_Witness ==
  /\ Len(Delivered) = 1
  /\ Delivered[1].payload = 65537
  /\ conn.data_size = 65537
  /\ conn.posted = 0

\* C15 as stated: once the length decoded from a size prefix exceeds the
\* maximum message size, the connection is closed, no payload read is
\* started, nothing is delivered and no reply is written.
C15_OversizedFrameClosed ==
  (conn.frames > 0 /\ conn.data_size > kMaxTransportMessageSize)
  => /\ ~conn.socket_open
     /\ conn.io.kind \notin {"read_data", "write"}
     /\ conn.posted = 0
     /\ \A i \in 1..Len(Delivered) : Delivered[i].frame # conn.frames

\* C16 as stated: the handler of an operation that CheckTimeout has aborted
\* by closing the socket reports kReceiveTimeout for a read and kSendTimeout
\* for a connect or a write.
C16_AbortedReportsTimeout ==
  [][\A kind \in {"connect", "write", "read_size", "read_data"} :
       (/\ HandlerRuns(kind)
        /\ conn.io.status = "aborted"
        /\ conn.closed_by = "CheckTimeout"
        /\ transport.alive)
       => transport'.on_error =
            Append(transport.on_error,
                   IF kind \in {"read_size", "read_data"}
                     THEN kReceiveTimeout ELSE kSendTimeout)]_tcpVars

\* the conditions the connection has reported (Send alone reports
\* kMessageSizeTooLarge, before the connection exists)
Reported ==
  SelectSeq(transport.on_error, LAMBDA e : e # kMessageSizeTooLarge)

C19_CloseIdempotent ==
  [][/\ conn'.closes > 0
          => /\ ~conn'.socket_open
             /\ ~conn'.wait_armed
             /\ Self \notin transport'.connections \/ RemovalQueued'
     /\ (conn'.closes > conn.closes /\ conn.closes > 0)
          => /\ conn'.socket_open = conn.socket_open
             /\ conn'.closed_by = conn.closed_by
             /\ conn'.wait_armed = conn.wait_armed
             /\ conn'.expires_at = conn.expires_at
             /\ transport'.connections = transport.connections
             /\ transport'.on_error = transport.on_error
             /\ transport'.alive = transport.alive]_tcpVars

\* DoClose has run twice on the connection
C19_Witness ==
  /\ conn.closes = 2
  /\ ~conn.socket_open
  /\ Self \notin transport.connections

\* the frame in size_buffer_ and data_buffer_ is one that EncodeData wrote
Encoded ==
  \/ conn.io.kind \in {"connect", "write"}
  \/ NextTask \in {"DoStartSending", "StartWrite"}

\* C20: the size prefix EncodeData writes for a payload of at most the
\* maximum message size is four bytes, each in 0..255, that the decoding of
\* HandleReadSize turns back into the length of the payload, whatever the
\* bytes are.
C20_FramingRoundTrip ==
  Encoded
  => /\ conn.data_buffer <= kMaxTransportMessageSize
     /\ Len(conn.size_buffer) = 4
     /\ \A i \in 1..4 : conn.size_buffer[i] \in 0..255
     /\ DecodeSize(conn.size_buffer) = conn.data_buffer

\* a payload of 0x808080 bytes is being written: three prefix bytes are 0x80
C20_Witness ==
  /\ conn.io.kind = "write"
  /\ conn.data_buffer = 8421504
  /\ conn.size_buffer = <<0, 128, 128, 128>>
  /\ DecodeSize(conn.size_buffer) = 8421504


\* a received message is being dispatched: DispatchMessage is posted, or the
\* StartWrite it dispatched has not run yet
Dispatching ==
  \/ conn.posted > 0
  \/ \E i \in 1..Len(conn.tasks) : conn.tasks[i] = "StartWrite"

\* C29: from the moment HandleReadData has received the last payload byte
\* until the write of the response is started, the deadline of the
\* connection's timer is infinite and CheckTimeout has not closed the
\* socket, however far the clock advances.
C29_NoDeadlineWhileDispatching ==
  Dispatching
  => /\ conn.expires_at = pos_infin
     /\ conn.closed_by # "CheckTimeout"

\* the callback has not returned although the response deadline of the read
\* has passed: the wait that expires_at cancelled has run CheckTimeout,
\* which left the socket open and waits again
C29_Witness ==
  /\ conn.posted > 0
  /\ now >= conn.response_deadline
  /\ conn.socket_open
  /\ conn.wait_armed
  /\ ~conn.wait_queued

\* C30: connections_ changes only in a handler of the transport's strand:
\* an insert is the step of DoInsertConnection at the head of the strand or
\* of HandleAccept, which the strand wraps; an erase is the step of
\* DoRemoveConnection at the head of the strand. Send and DoClose only add
\* to the strand. The destructor, which runs when no handler holds the
\* transport, destroys the set.
C30_MutatedInStrand ==
  [][transport'.connections # transport.connections
     => \/ /\ transport.strand # <<>>
           /\ transport'.strand = Tail(transport.strand)
           /\ \/ /\ Head(transport.strand) = "DoInsertConnection"
                 /\ transport'.connections = transport.connections \cup {Self}
              \/ /\ Head(transport.strand) = "DoRemoveConnection"
                 /\ transport'.connections = transport.connections \ {Self}
           /\ conn' = conn
        \/ /\ conn.origin = "none"
           /\ conn'.origin = "accept"
           /\ transport'.strand = transport.strand
           /\ transport'.connections = transport.connections \cup {Self}
        \/ /\ transport.alive
           /\ ~transport'.alive
           /\ transport.strand = <<>>]_tcpVars

\* the connection that Send made was inserted by the strand, was closed, and
\* was erased by the strand
C30_Witness ==
  /\ conn.origin = "send"
  /\ conn.closes = 1
  /\ transport.alive
  /\ transport.strand = <<>>
  /\ Self \notin transport.connections
  /\ transport.on_error = <<kSendFailure>>


\* C38: whenever a connect, a read or a write is outstanding on the
\* connection, a wait on the deadline timer is armed, or has completed and
\* its CheckTimeout is about to run, so that the timer ends an operation
\* that never completes.
C38_TimerArmedWhileOutstanding ==
  conn.io.status = "pending" => conn.wait_armed \/ conn.wait_queued

\* HandleAccept runs in this step, for an accept that completed with ec
AcceptHandled(ec) ==
  /\ transport.strand # <<>>
  /\ Head(transport.strand) =
       (IF ec = "none" THEN "HandleAccept" ELSE "HandleAcceptFailed")
  /\ transport'.strand = Tail(transport.strand)

\* C31: while the acceptor is open, HandleAccept re-arms exactly one accept
\* whatever the completion was, and for a completion without error it
\* inserts the accepted connection into connections_ and starts it
\* receiving; once CloseAcceptor has run, HandleAccept inserts no connection
\* and arms no accept, and no step adds a connection to connections_.
C31_AcceptLoop ==
  [][/\ \A ec \in {"none", "error"} :
          AcceptHandled(ec)
          => IF transport.is_open
               THEN /\ transport'.accepts = transport.accepts + 1
                    /\ ec = "none"
                         => /\ transport'.connections =
                                 transport.connections
                                   \cup {NewConnection(conn)}
                            /\ conn.origin = "none"
                                 => /\ conn'.origin = "accept"
                                    /\ conn'.tasks =
                                         Append(conn.tasks, "DoStartReceiving")
                    /\ ec = "error"
                         => /\ transport'.connections = transport.connections
                            /\ conn' = conn
             ELSE /\ transport'.accepts = transport.accepts
                  /\ transport'.connections = transport.connections
                  /\ conn' = conn
     /\ ~transport.is_open
          => transport'.connections \subseteq transport.connections
     /\ transport'.accepts > transport.accepts
          => \/ \E ec \in {"none", "error"} : AcceptHandled(ec)
             \/ /\ transport.listening_port = 0
                /\ transport'.listening_port # 0]_tcpVars

\* the transport accepted the connection, which reads its size prefix, and
\* another one; StopListening was called, an accept completed before
\* CloseAcceptor ran and its HandleAccept ran after it: nothing is armed
C31_Witness ==
  /\ transport.connections = {Self, "other"}
  /\ conn.io = Pending("read_size")
  /\ ~transport.acceptor_
  /\ ~transport.is_open
  /\ transport.accepts = 0
  /\ transport.strand = <<>>

(***************************************************************************)
(* Inputs of the vault manager.                                            *)
(***************************************************************************)
Threads == 1..MaxThreads

\* config files the constructor finds: the one it writes when there is
\* none, and one with a vault that is requested to run
InitialConfigs ==
  {SerializeConfig(kInitialUpdateInterval, <<>>),
   SerializeConfig(3600,
                   <<[VaultInfo EXCEPT !.account_name = "a",
                                       !.keys = KeysOf("K"),
                                       !.requested_to_run = TRUE]>>)}

Pings == {WrapMessage("kPing", [kind |-> "Ping"])}

StartVaultRequests ==
  {WrapMessage("kStartVaultRequest",
               [kind |-> "StartVaultRequest",
                account_name |-> r[1], keys |-> r[2]]) :
     r \in {<<"a", SerialiseKeys(KeysOf("K")).bytes>>,
            <<"b", SerialiseKeys(KeysOf("O")).bytes>>,
            <<"c", Garbage>>}}

VaultIdentityRequests ==
  {WrapMessage("kVaultIdentityRequest",
               [kind |-> "VaultIdentityRequest", process_index |-> i]) :
     i \in 1..2}

StopVaultRequests ==
  {WrapMessage("kStopVaultRequest",
               [kind |-> "StopVaultRequest", identity |-> identity,
                data |-> <<0>>, signature |-> signature]) :
     identity \in ValidKeys,
     signature \in {Sign("K", <<0>>, 0), BadSignature}}

\* seconds asked for: none, and values at and next to the limits
UpdateIntervalRequests ==
  {WrapMessage("kUpdateIntervalRequest",
               [kind |-> "UpdateIntervalRequest",
                has_new_update_interval |-> FALSE,
                new_update_interval |-> 0])}
  \cup
  {WrapMessage("kUpdateIntervalRequest",
               [kind |-> "UpdateIntervalRequest",
                has_new_update_interval |-> TRUE,
                new_update_interval |-> s]) :
     s \in {kMinUpdateInterval - 1, kMinUpdateInterval,
            kMaxUpdateInterval, kMaxUpdateInterval + 1}}

RequestTypes ==
  {"kPing", "kStartVaultRequest", "kVaultIdentityRequest",
   "kStopVaultRequest", "kUpdateIntervalRequest"}

\* messages whose payload does not parse for their type, a message of a
\* type that is not a request, and bytes that UnwrapMessage rejects
Malformed == {WrapMessage(type, Garbage) : type \in RequestTypes}
Unhandled == {WrapMessage("kStartVaultResponse", Garbage), Garbage}

Messages ==
  Pings \cup StartVaultRequests \cup VaultIdentityRequests
    \cup StopVaultRequests \cup UpdateIntervalRequests
    \cup Malformed \cup Unhandled

\* what the file system and std::mutex::lock do during the handler of a
\* message: HandleBootstrapFile, SetExecutablePath and WriteFile succeed or
\* fail, the lock of an owned mutex never returns, throws or returns
Envs(message) ==
  LET type == IF ParsesAs(message, "WrapperMessage")
                THEN message.type ELSE "none"
  IN  [bootstrap_ok : IF type = "kStartVaultRequest" THEN BOOLEAN ELSE {TRUE},
       executable_ok : IF type = "kStartVaultRequest" THEN BOOLEAN ELSE {TRUE},
       write_ok : IF type = "kStopVaultRequest" THEN BOOLEAN ELSE {TRUE},
       relock : IF type = "kStopVaultRequest"
                  THEN {"deadlock", "throws", "proceeds"} ELSE {"proceeds"}]

(***************************************************************************)
(* Actions of the vault manager.                                           *)
(***************************************************************************)
InitVM ==
  /\ vm \in {VaultManager(config_file, executable_ok, {}) :
               config_file \in InitialConfigs, executable_ok \in BOOLEAN}
  /\ now = 0
  /\ conn = TcpConnection
  /\ transport = TcpTransport
  /\ store = [n \in Names |-> EmptyBytes]
  /\ op = "none"
  /\ name = "name"
  /\ public_key = "K"
  /\ content = EmptyBytes
  /\ rc = kSuccess
  /\ result_content = EmptyBytes

\* the transport's on_message_received runs HandleReceivedMessage on a
\* free worker thread
Receive(th, message, env) ==
  /\ vm.received < MaxMessages
  /\ vm.threads[th].pc = "idle"
  /\ \A other \in Threads : other < th => vm.threads[other].pc # "idle"
  /\ vm' = HandleReceivedMessage([vm EXCEPT !.received = @ + 1],
                                 th, message, env)
  /\ UNCHANGED <<caaVars, tcpVars>>

\* the thread that has started its vault pushes the vault_info and writes
\* the config file
StartVaultPushesBack(th, write_ok) ==
  /\ vm.threads[th].pc = "started"
  /\ vm' = StartVaultPushBack(vm, th, write_ok)
  /\ UNCHANGED <<caaVars, tcpVars>>

\* the thread that has written the config file begins to wait
StartVaultWaits(th) ==
  /\ vm.threads[th].pc = "pushed"
  /\ vm' = StartVaultWaitBegins(vm, th)
  /\ UNCHANGED <<caaVars, tcpVars>>

\* cond_var.wait_for returns: the predicate holds or 3 seconds have passed
StartVaultWaitEnds(th) ==
  /\ vm.threads[th].pc = "wait"
  /\ \/ vm.vault_infos[vm.threads[th].vault].vault_requested
     \/ vm.threads[th].elapsed = kVaultWait
  /\ vm' = StartVaultWaitReturns(vm, th)
  /\ UNCHANGED <<caaVars, tcpVars>>

\* the thread that SetUpdateInterval has returned true to goes on
UpdateIntervalRequestEnds(th) ==
  /\ vm.threads[th].pc = "get"
  /\ vm' = UpdateIntervalSet(vm, th)
  /\ UNCHANGED <<caaVars, tcpVars>>

\* 3 seconds have passed since the thread began to wait
StartVaultWaitTimesOut(th) ==
  /\ vm.threads[th].pc = "wait"
  /\ vm.threads[th].elapsed < kVaultWait
  /\ vm' = [vm EXCEPT !.threads[th].elapsed = kVaultWait]
  /\ UNCHANGED <<caaVars, tcpVars>>

\* update_timer_ expires: its wait completes without error
UpdateTimerExpires ==
  /\ vm.update_timer.waits > 0
  /\ vm.checks + vm.update_timer.queue["none"] < MaxChecks
  /\ vm' = [vm EXCEPT !.update_timer.waits = @ - 1,
                      !.update_timer.queue["none"] = @ + 1]
  /\ UNCHANGED <<caaVars, tcpVars>>

\* the wait of update_timer_ completes with an error that is not
\* operation_aborted
UpdateTimerFails ==
  /\ vm.update_timer.waits > 0
  /\ vm' = [vm EXCEPT !.update_timer.waits = @ - 1,
                      !.update_timer.queue["error"] = @ + 1]
  /\ UNCHANGED <<caaVars, tcpVars>>

\* the handler of a completed wait runs CheckForUpdates(ec)
OnUpdateTimer(ec) ==
  /\ vm.update_timer.queue[ec] > 0
  /\ vm' = CheckForUpdates([vm EXCEPT !.update_timer.queue[ec] = @ - 1], ec)
  /\ UNCHANGED <<caaVars, tcpVars>>

\* VaultManager::~VaultManager, and the constructor again on the config
\* file that is on disk
Restart(executable_ok, taken) ==
  /\ vm.restarts < MaxRestarts
  /\ vm.checks + vm.update_timer.queue["none"] < MaxChecks
  /\ \A th \in Threads : vm.threads[th].pc = "idle"
  /\ vm' = [VaultManager(vm.config_file, executable_ok, taken) EXCEPT
              !.received = vm.received,
              !.completed = vm.completed,
              !.checks = vm.checks + 1,
              !.restarts = vm.restarts + 1]
  /\ UNCHANGED <<caaVars, tcpVars>>

NextVM ==
  \/ \E th \in Threads, message \in Messages :
       \E env \in Envs(message) : Receive(th, message, env)
  \/ \E th \in Threads, write_ok \in BOOLEAN :
       StartVaultPushesBack(th, write_ok)
  \/ \E th \in Threads : StartVaultWaits(th)
  \/ \E th \in Threads : StartVaultWaitTimesOut(th)
  \/ \E th \in Threads : StartVaultWaitEnds(th)
  \/ \E th \in Threads : UpdateIntervalRequestEnds(th)
  \/ \E executable_ok \in BOOLEAN : Restart(executable_ok, {})

\* the handlers of control messages
SpecVM == InitVM /\ [][NextVM]_vmVars

NextUpdate ==
  \/ \E th \in Threads, message \in UpdateIntervalRequests :
       \E env \in Envs(message) : Receive(th, message, env)
  \/ \E th \in Threads : UpdateIntervalRequestEnds(th)
  \/ UpdateTimerExpires
  \/ UpdateTimerFails
  \/ \E ec \in {"none", "aborted", "error"} : OnUpdateTimer(ec)
  \/ \E executable_ok \in BOOLEAN : Restart(executable_ok, {})

\* the update loop and the requests that set its interval
SpecUpdate == InitVM /\ [][NextUpdate]_vmVars

(***************************************************************************)
(* The start-vault handshake on the worker threads of asio_service_.       *)
(***************************************************************************)
\* asio_service_(3)
kWorkerThreads == 3
Workers == 1..kWorkerThreads

\* a START_VAULT_REQUEST, and the VAULT_IDENTITY_REQUESTs of vaults
WorkerMessages ==
  {message \in StartVaultRequests : message.payload.account_name = "a"}
    \cup VaultIdentityRequests

InitWorkers ==
  /\ vm \in {[VaultManager(config_file, executable_ok, {}) EXCEPT
                !.threads = [th \in Workers |-> Idle]] :
               config_file \in InitialConfigs, executable_ok \in BOOLEAN}
  /\ now = 0
  /\ conn = TcpConnection
  /\ transport = TcpTransport
  /\ store = [n \in Names |-> EmptyBytes]
  /\ op = "none"
  /\ name = "name"
  /\ public_key = "K"
  /\ content = EmptyBytes
  /\ rc = kSuccess
  /\ result_content = EmptyBytes

\* on_message_received runs HandleReceivedMessage on a worker thread that
\* is not inside a handler
ReceiveOnWorker(th, message, env) ==
  /\ vm.received < MaxPending
  /\ vm.threads[th].pc = "idle"
  /\ \A other \in Workers : other < th => vm.threads[other].pc # "idle"
  /\ vm' = HandleReceivedMessage([vm EXCEPT !.received = @ + 1],
                                 th, message, env)
  /\ UNCHANGED <<caaVars, tcpVars>>

NextWorkers ==
  \/ \E th \in Workers, message \in WorkerMessages :
       \E env \in Envs(message) : ReceiveOnWorker(th, message, env)
  \/ \E th \in Workers, write_ok \in BOOLEAN :
       StartVaultPushesBack(th, write_ok)
  \/ \E th \in Workers : StartVaultWaits(th)
  \/ \E th \in Workers : StartVaultWaitTimesOut(th)
  \/ \E th \in Workers : StartVaultWaitEnds(th)

\* START_VAULT_REQUESTs and VAULT_IDENTITY_REQUESTs on the 3 worker threads
SpecWorkers == InitWorkers /\ [][NextWorkers]_vmVars

(***************************************************************************)
(* The ports of the vault manager and of its vault processes.              *)
(***************************************************************************)
\* the ports that other programs hold when the constructor runs: none, or
\* the ports from kMinPort up to one of the range
TakenPorts == {kMinPort..port : port \in (kMinPort - 1)..kMaxPort}

InitPorts ==
  /\ vm \in {VaultManager(config_file, executable_ok, taken) :
               config_file \in InitialConfigs, executable_ok \in BOOLEAN,
               taken \in TakenPorts}
  /\ now = 0
  /\ conn = TcpConnection
  /\ transport = TcpTransport
  /\ store = [n \in Names |-> EmptyBytes]
  /\ op = "none"
  /\ name = "name"
  /\ public_key = "K"
  /\ content = EmptyBytes
  /\ rc = kSuccess
  /\ result_content = EmptyBytes

NextPorts ==
  \/ \E th \in Threads, message \in WorkerMessages :
       \E env \in Envs(message) : Receive(th, message, env)
  \/ \E th \in Threads, write_ok \in BOOLEAN :
       StartVaultPushesBack(th, write_ok)
  \/ \E th \in Threads : StartVaultWaits(th)
  \/ \E th \in Threads : StartVaultWaitTimesOut(th)
  \/ \E th \in Threads : StartVaultWaitEnds(th)
  \/ \E executable_ok \in BOOLEAN, taken \in TakenPorts :
       Restart(executable_ok, taken)

\* vaults added from the config file and by START_VAULT_REQUESTs, with
\* ports of the range taken
SpecPorts == InitPorts /\ [][NextPorts]_vmVars

(***************************************************************************)
(* The mutexes of the vault manager.                                       *)
(***************************************************************************)
\* the functions that threads call: the handlers of control messages, the
\* handler of update_timer_, and the public functions
EntryPoints ==
  {"HandleStartVaultRequest", "HandleVaultIdentityRequest",
   "HandleStopVaultRequest", "HandleUpdateIntervalRequest",
   "CheckForUpdates", "RestartVault", "StopVault", "~VaultManager"}

Mutexes == {"vault_infos_mutex_", "update_mutex_", "mutex"}

\* a thread that is in no function calls f
Enters(th, f, found) ==
  /\ vm.received < MaxMessages
  /\ vm.threads[th].pc = "idle"
  /\ LocksOf(f, found) # <<>>
  /\ vm' = [vm EXCEPT !.received = @ + 1,
                      !.threads[th] = [Idle EXCEPT
                                         !.pc = "locks",
                                         !.todo = LocksOf(f, found)]]
  /\ UNCHANGED <<caaVars, tcpVars>>

\* a thread runs its next lock of a mutex that no thread owns, its next
\* unlock or its next call
Runs(th) ==
  /\ vm.threads[th].pc = "locks"
  /\ \A m \in Mutexes :
       AtLock(vm, th, m) => \A other \in Threads : m \notin Held(vm, other)
  /\ vm' = RunHead(vm, th)
  /\ UNCHANGED <<caaVars, tcpVars>>

\* a thread locks a mutex that it owns
Relocks(th, relock) ==
  /\ vm.threads[th].pc = "locks"
  /\ \E m \in Mutexes : AtLock(vm, th, m) /\ m \in Held(vm, th)
  /\ vm' = RelockHead(vm, th, relock)
  /\ UNCHANGED <<caaVars, tcpVars>>

NextLocks ==
  \/ \E th \in Threads, f \in EntryPoints, found \in BOOLEAN :
       Enters(th, f, found)
  \/ \E th \in Threads : Runs(th)
  \/ \E th \in Threads, relock \in {"deadlock", "throws", "proceeds"} :
       Relocks(th, relock)

\* the functions of the Vault Manager on their threads, by the mutexes
\* they lock
SpecLocks == InitVM /\ [][NextLocks]_vmVars

(***************************************************************************)
(* Claims about the vault manager.                                         *)
(***************************************************************************)
\* a handler returns in this step, and the message it was given
Returned == vm'.completed = vm.completed + 1
Request == vm'.last.request

\* the handler that returns in this step was given a message of the type
\* whose payload parsed
Handled(type, kind) ==
  /\ Returned
  /\ ParsesAs(Request, "WrapperMessage")
  /\ Request.type = type
  /\ ParsesAs(Request.payload, kind)

\* a VAULT_IDENTITY_REQUEST carrying the process index is handled
IdentityHandled(process_index) ==
  /\ Handled("kVaultIdentityRequest", "VaultIdentityRequest")
  /\ Request.payload.process_index = process_index

StoppedVault(v, request) == FindFromIdentity(v.vault_infos, request.identity)
Validates(v, request) ==
  /\ StoppedVault(v, request) # 0
  /\ AsymmValidate(request.data, request.signature,
                   v.vault_infos[StoppedVault(v, request)].keys.public_key)

\* C22 as stated: a STOP_VAULT_REQUEST that names no VaultInfo or does not
\* validate is answered result=false, and no process is stopped, no
\* requested_to_run is changed and the config file is not rewritten; one
\* that validates is answered result=true, its process is stopped, its
\* requested_to_run is cleared and the config file holds the state.
C22_StopOnlyWhenValidated ==
  [][Handled("kStopVaultRequest", "StopVaultRequest")
     => IF Validates(vm, Request.payload)
          THEN LET itr == StoppedVault(vm, Request.payload)
               IN  /\ vm'.last.response = StopVaultResponse(TRUE)
                   /\ vm'.processes[vm.vault_infos[itr].process_index]
                        = "stopped"
                   /\ ~vm'.vault_infos[itr].requested_to_run
                   /\ vm'.config_file =
                        SerializeConfig(vm'.update_interval, vm'.vault_infos)
        ELSE /\ vm'.last.response = StopVaultResponse(FALSE)
             /\ vm'.processes = vm.processes
             /\ vm'.vault_infos = vm.vault_infos
             /\ vm'.config_file = vm.config_file]_vmVars

\* the last handler to return has answered a STOP_VAULT_REQUEST with
\* result=true
StopSucceeded(v) == v.last.response = StopVaultResponse(TRUE)

\* requested_to_run of the records with the identity is false in memory
NotRequestedToRun(v, identity) ==
  \A i \in 1..Len(v.vault_infos) :
    v.vault_infos[i].keys.identity = identity
      => ~v.vault_infos[i].requested_to_run

\* a read of the config file finds requested_to_run false for the identity
ReadsNotRequestedToRun(v, identity) ==
  \A i \in 1..Len(v.config_file.vault_info) :
    FromProtobuf(v.config_file.vault_info[i]).keys.identity = identity
      => ~FromProtobuf(v.config_file.vault_info[i]).requested_to_run

C24_ConfigIsState ==
  [][Returned
     => vm'.config_file =
          SerializeConfig(vm'.update_interval, vm'.vault_infos)]_vmVars

\* C25 as stated: no two VaultInfos in memory have the same identity.
C25_IdentityUnique ==
  \A i, j \in 1..Len(vm.vault_infos) :
    vm.vault_infos[i].keys.identity = vm.vault_infos[j].keys.identity
      => i = j

\* the update interval is within its limits
IntervalInRange(v) ==
  /\ v.update_interval >= kMinUpdateInterval
  /\ v.update_interval <= kMaxUpdateInterval

\* thread th is given an UPDATE_INTERVAL_REQUEST with a new interval in
\* this step, and SetUpdateInterval returns true to it
IntervalSet(th) ==
  /\ vm.threads[th].pc = "idle"
  /\ vm'.threads[th].pc = "get"

\* C26 as stated: an UPDATE_INTERVAL_REQUEST with a new interval below 5
\* minutes or above 7 days leaves the interval and the timer as they are
\* and is answered 0; one with a new interval within the limits leaves that
\* interval in memory and is answered that interval; one without a new
\* interval leaves the interval as it is and is answered the interval; and
\* the interval stays within the limits.
C26_UpdateInterval ==
  [][/\ Handled("kUpdateIntervalRequest", "UpdateIntervalRequest")
        => LET request == Request.payload
               new == request.new_update_interval
           IN  IF ~request.has_new_update_interval
                 THEN /\ vm'.update_interval = vm.update_interval
                      /\ vm'.update_timer = vm.update_timer
                      /\ vm'.last.response =
                           UpdateIntervalResponse(vm.update_interval)
               ELSE IF new < kMinUpdateInterval \/ new > kMaxUpdateInterval
                 THEN /\ vm'.update_interval = vm.update_interval
                      /\ vm'.update_timer = vm.update_timer
                      /\ vm'.last.response = UpdateIntervalResponse(0)
               ELSE /\ vm'.update_interval = new
                    /\ vm'.last.response = UpdateIntervalResponse(new)
     /\ IntervalInRange(vm) => IntervalInRange(vm')]_vmVars

\* C26 amended: as C26, but a request with a new interval within the limits
\* sets the interval and arms the timer for it when SetUpdateInterval runs,
\* and is answered the interval that GetUpdateInterval finds afterwards:
\* the new interval, or the one that a request handled on another thread
\* has set since, and not 0.
C26_UpdateIntervalWhenRead ==
  [][/\ Handled("kUpdateIntervalRequest", "UpdateIntervalRequest")
        => LET request == Request.payload
               new == request.new_update_interval
           IN  IF ~request.has_new_update_interval
                 THEN /\ vm'.update_interval = vm.update_interval
                      /\ vm'.update_timer = vm.update_timer
                      /\ vm'.last.response =
                           UpdateIntervalResponse(vm.update_interval)
               ELSE IF new < kMinUpdateInterval \/ new > kMaxUpdateInterval
                 THEN /\ vm'.update_interval = vm.update_interval
                      /\ vm'.update_timer = vm.update_timer
                      /\ vm'.last.response = UpdateIntervalResponse(0)
               ELSE /\ vm'.update_interval = vm.update_interval
                    /\ vm'.update_timer = vm.update_timer
                    /\ vm'.last.response =
                         UpdateIntervalResponse(vm.update_interval)
                    /\ IntervalInRange(vm) => vm'.last.response # 
                         UpdateIntervalResponse(0)
     /\ \A th \in Threads :
          IntervalSet(th)
          => LET new == vm'.threads[th].request.payload.new_update_interval
             IN  /\ new >= kMinUpdateInterval
                 /\ new <= kMaxUpdateInterval
                 /\ vm'.update_interval = new
                 /\ vm'.update_timer.expires_from_now = new
                 /\ vm'.update_timer.waits = 1
     /\ IntervalInRange(vm) => IntervalInRange(vm')]_vmVars

\* a request for 5 minutes has been granted and answered 300, and a request
\* for 299 seconds has then been answered 0 and has left the 5 minutes
C26_Witness ==
  /\ vm.completed = 2
  /\ vm.update_interval = kMinUpdateInterval
  /\ vm.update_timer.expires_from_now = kMinUpdateInterval
  /\ vm.last.request.payload.new_update_interval = kMinUpdateInterval - 1
  /\ vm.last.response = UpdateIntervalResponse(0)

\* C27 as stated: a message of a request type whose payload does not parse
\* is dropped: Send is not called for it and the state is as it was.
C27_MalformedDropped ==
  [][(Returned /\ Request \in Malformed)
     => /\ ~vm'.last.sent
        /\ vm'.vault_infos = vm.vault_infos
        /\ vm'.update_interval = vm.update_interval
        /\ vm'.update_timer = vm.update_timer
        /\ vm'.config_file = vm.config_file
        /\ vm'.processes = vm.processes]_vmVars

\* the handler of a wait of update_timer_ that completed with ec runs
\* CheckForUpdates(ec) in this step
CheckForUpdatesRuns(ec) ==
  vm'.update_timer.queue[ec] = vm.update_timer.queue[ec] - 1

\* C28 as stated: CheckForUpdates called with an error code that is not
\* operation_aborted leaves a wait of the timer pending, armed for the
\* update interval; called with operation_aborted it does no update work.
C28_LoopRearmed ==
  [][/\ \A ec \in {"none", "error"} :
          CheckForUpdatesRuns(ec)
          => /\ vm'.update_timer.waits = 1
             /\ vm'.update_timer.expires_from_now = vm'.update_interval
     /\ CheckForUpdatesRuns("aborted")
          => /\ vm'.checks = vm.checks
             /\ vm'.update_timer.waits = vm.update_timer.waits]_vmVars

\* a START_VAULT_REQUEST that parsed is answered with result in this step
StartAnswered(result) ==
  /\ Handled("kStartVaultRequest", "StartVaultRequest")
  /\ vm'.last.response = StartVaultResponse(result)

\* C33 as stated: a START_VAULT_REQUEST that is answered result=false
\* leaves the VaultInfos in memory and the config file as they were before
\* the request: one answered at once changes neither, and after one
\* answered when its wait has timed out the VaultInfo of the request is
\* not in vault_infos_ and not in the config file.
C33_FalseLeavesState ==
  [][StartAnswered(FALSE)
     => /\ vm'.vault_infos = vm.vault_infos
        /\ vm'.config_file = vm.config_file
        /\ \A th \in Threads :
             LET wait == vm.threads[th]
             IN  (wait.pc = "wait" /\ vm'.threads[th].pc = "idle")
                 => /\ FindFromProcessIndex(vm'.vault_infos,
                                            wait.process_index) = 0
                    /\ \/ Len(vm'.config_file.vault_info) < wait.vault
                       \/ vm'.config_file.vault_info[wait.vault]
                            # ToProtobuf(vm.vault_infos[wait.vault])]_vmVars

\* C35 as stated: a VAULT_IDENTITY_REQUEST that carries the process index
\* of a process that HandleStartVaultRequest has started finds the
\* VaultInfo of the process in vault_infos_.
C35_StartedVaultFound ==
  [][\A th \in Threads :
       LET start == vm.threads[th]
       IN  (start.pc \in {"started", "pushed", "wait"}
              /\ IdentityHandled(start.process_index))
           => FindFromProcessIndex(vm.vault_infos, start.process_index) # 0
     ]_vmVars

\* C36: from the push_back of its vault_info on, before the wait and
\* during it, a vault_requested that the identity handler has set stays
\* set until HandleStartVaultRequest returns; the handler answers
\* result=true when it is set, and result=false only when it is not set
\* and 3 seconds have passed.
C36_NoLostWakeUp ==
  [][\A th \in Threads :
       LET start == vm.threads[th]
           vault_info == vm.vault_infos[start.vault]
       IN  start.pc \in {"pushed", "wait"}
           => /\ vault_info.vault_requested
                 => /\ vm'.vault_infos[start.vault].vault_requested
                    /\ vm'.threads[th].pc \in {"pushed", "wait", "idle"}
              /\ vm'.threads[th].pc = "idle"
                 => /\ start.pc = "wait"
                    /\ vm'.last.request = start.request
                    /\ vm'.last.response =
                         StartVaultResponse(vault_info.vault_requested)
                    /\ ~vault_info.vault_requested
                         => start.elapsed = kVaultWait]_vmVars

\* the identity handler has set vault_requested after the push_back and
\* before the start handler began to wait: the wait has begun, it has not
\* been notified and no time has passed
C36_Witness ==
  \E th \in Threads :
    /\ vm.threads[th].pc = "wait"
    /\ vm.threads[th].elapsed = 0
    /\ ~vm.threads[th].notified
    /\ vm.vault_infos[vm.threads[th].vault].vault_requested
    /\ vm.last.response =
         VaultIdentityResponse(vm.threads[th].request.payload.account_name,
                               vm.threads[th].request.payload.keys)

\* worker thread th is blocked in the wait_for of HandleStartVaultRequest:
\* vault_requested is not set and the 3 seconds have not passed
BlockedInWait(th) ==
  /\ vm.threads[th].pc = "wait"
  /\ vm.threads[th].elapsed < kVaultWait
  /\ ~vm.vault_infos[vm.threads[th].vault].vault_requested

\* C39 as stated: however many START_VAULT_REQUESTs are waiting for their
\* vaults, a worker thread is left that is not blocked in the 3-second
\* wait, on which the VAULT_IDENTITY_REQUEST of a vault is handled before
\* the wait for it times out.
C39_WorkerLeftForIdentity ==
  \E th \in Workers : ~BlockedInWait(th)

\* C40 as stated: the notification port given to the process manager with
\* every vault process, added from the config file or by a
\* START_VAULT_REQUEST, is the port on which the Vault Manager listens.
C40_NotificationPortIsListeningPort ==
  \A index \in DOMAIN vm.process_ports :
    vm.process_ports[index] = vm.listening_port

\* C32: a thread that is about to lock vault_infos_mutex_ does not own
\* update_mutex_, and a thread that owns both has locked vault_infos_mutex_
\* first.
C32_LockOrder ==
  \A th \in Threads :
    LET held == vm.threads[th].held
    IN  /\ AtLock(vm, th, "vault_infos_mutex_")
           => "update_mutex_" \notin Held(vm, th)
        /\ \A i, j \in DOMAIN held :
             (held[i] = "update_mutex_" /\ held[j] = "vault_infos_mutex_")
               => j < i

\* a thread owns vault_infos_mutex_ and has locked update_mutex_: StopVault
\* has called WriteConfigFile
C32_Witness ==
  \E th \in Threads :
    LET held == vm.threads[th].held
    IN  /\ Len(held) >= 2
        /\ held[1] = "vault_infos_mutex_"
        /\ held[Len(held)] = "update_mutex_"

\* C34 as stated: no thread locks a mutex that it owns, and no handler is
\* left that does not return.
C34_NoRelock ==
  \A th \in Threads :
    /\ \A m \in Mutexes : AtLock(vm, th, m) => m \notin Held(vm, th)
    /\ vm.threads[th].pc \notin {"deadlock", "thrown"}

=============================================================================
